---- MODULE Spec2Model ----
(***************************************************************************)
(* propforge: dot-path property access (src/src/props.ts) with its input   *)
(* validation (src/src/utils/validation.ts), and the template engine built *)
(* on it (src/src/index.ts).                                               *)
(*                                                                         *)
(* JavaScript values are modelled as tagged trees.  A path string is kept  *)
(* as the sequence its split(".") yields (a bijection between strings and  *)
(* non-empty sequences of dot-free segments), and every segment is a       *)
(* string whose characters are given by Chars.  The modules are ES         *)
(* modules, hence strict mode: a write to a property of a primitive, the   *)
(* `in` operator on a primitive and the delete of a string's index raise   *)
(* a TypeError.                                                            *)
(*                                                                         *)
(* Scope of the value model: containers are trees (no object is reachable  *)
(* by two paths), and segment names are drawn from names that are not      *)
(* members of Object.prototype or Array.prototype ("length" included), so  *)
(* a property lookup sees own properties only.                             *)
(***************************************************************************)
EXTENDS Integers, Sequences, FiniteSets, TLC

VARIABLES
  obj,           \* the container the caller holds
  globalConfig,  \* props.ts: let globalConfig
  last,          \* the latest call: its arguments, the state it met, how it ended
  ncalls,        \* how many of the four operations were called
  used,          \* the configurations passed to props.use, in call order
  registry,      \* the template engine: transformers, defaultTransformer, defaultValue
  tused,         \* the configurations passed to template.use, in call order
  renders        \* the render calls, in call order, each where its awaits left it

vars == <<obj, globalConfig, last, ncalls, used, registry, tused, renders>>

-----------------------------------------------------------------------------
(* Bounds *)

MaxPathLen == 3
MaxCalls == 1
MaxUse == 1
MaxTemplateUse == 2
MaxRenders == 2

-----------------------------------------------------------------------------
(* JavaScript values *)

UNDEF == [t |-> "undefined"]
NULL == [t |-> "null"]
HOLE == [t |-> "hole"]
Num(n) == [t |-> "number", n |-> n]
Str(s) == [t |-> "string", s |-> s]
EmptyMap == [k \in {} |-> UNDEF]
Obj(m) == [t |-> "object", m |-> m]
Arr(e) == [t |-> "array", e |-> e, m |-> EmptyMap]

IsNullish(v) == v.t \in {"null", "undefined"}

Put(m, k, v) == [x \in (DOMAIN m) \cup {k} |-> IF x = k THEN v ELSE m[x]]
Drop(m, k) == [x \in (DOMAIN m) \ {k} |-> m[x]]

-----------------------------------------------------------------------------
(* Strings: the characters of every string the model uses *)

Chars(s) ==
  CASE s = "" -> <<>>
    [] s = "-1" -> <<"-", "1">>
    [] s = "1x" -> <<"1", "x">>
    [] s = "hi" -> <<"h", "i">>
    [] s = "N/A" -> <<"N", "/", "A">>
    [] s = "{{b}}" -> <<"{", "{", "b", "}", "}">>
    [] s = "$&" -> <<"$", "&">>
    [] s = "__proto__" -> <<"_", "_", "p", "r", "o", "t", "o", "_", "_">>
    [] s = "constructor" -> <<"c", "o", "n", "s", "t", "r", "u", "c", "t", "o", "r">>
    [] s = "prototype" -> <<"p", "r", "o", "t", "o", "t", "y", "p", "e">>
    [] s = "get" -> <<"g", "e", "t">>
    [] s = "set" -> <<"s", "e", "t">>
    [] s = "defineProperty" -> <<"d", "e", "f", "i", "n", "e", "P", "r", "o", "p", "e", "r", "t", "y">>
    [] OTHER -> <<s>>

Digits == {"0", "1", "2", "3", "4", "5", "6", "7", "8", "9"}

DigitVal(c) ==
  CASE c = "0" -> 0 [] c = "1" -> 1 [] c = "2" -> 2 [] c = "3" -> 3 [] c = "4" -> 4
    [] c = "5" -> 5 [] c = "6" -> 6 [] c = "7" -> 7 [] c = "8" -> 8 [] c = "9" -> 9

IsWhite(c) == c = " "

RECURSIVE DigitsValue(_, _)
DigitsValue(cs, acc) ==
  IF cs = <<>> \/ ~(Head(cs) \in Digits) THEN acc
  ELSE DigitsValue(Tail(cs), 10 * acc + DigitVal(Head(cs)))

RECURSIVE SkipWhite(_)
SkipWhite(cs) == IF cs # <<>> /\ IsWhite(Head(cs)) THEN SkipWhite(Tail(cs)) ELSE cs

NaN == [nan |-> TRUE]

\* Number.parseInt(s, 10): leading blanks, an optional sign, then the longest
\* prefix of digits; NaN when that prefix is empty.
ParseInt(s) ==
  LET cs == SkipWhite(Chars(s))
      neg == cs # <<>> /\ Head(cs) = "-"
      ds == IF cs # <<>> /\ Head(cs) \in {"-", "+"} THEN Tail(cs) ELSE cs
  IN IF ds = <<>> \/ ~(Head(ds) \in Digits) THEN NaN
     ELSE [nan |-> FALSE, n |-> IF neg THEN 0 - DigitsValue(ds, 0) ELSE DigitsValue(ds, 0)]

\* A property key is an array index when it is the canonical decimal form of a
\* non-negative integer ("0", "12"; not "01", "-1", "1x").
IsIndex(s) ==
  LET cs == Chars(s)
  IN /\ cs # <<>>
     /\ \A i \in 1..Len(cs) : cs[i] \in Digits
     /\ (Len(cs) > 1 => cs[1] # "0")

IndexOf(s) == DigitsValue(Chars(s), 0)

\* String.prototype.trim() of a one-segment string is empty
TrimIsEmpty(s) == \A i \in 1..Len(Chars(s)) : IsWhite(Chars(s)[i])

-----------------------------------------------------------------------------
(* Property access on one value, as the language defines it (strict mode) *)

Unhole(v) == IF v = HOLE THEN UNDEF ELSE v

\* current[part], for a current that is neither null nor undefined
PropGet(cur, part) ==
  CASE cur.t = "object" -> IF part \in DOMAIN cur.m THEN cur.m[part] ELSE UNDEF
    [] cur.t = "array" ->
         IF IsIndex(part)
         THEN IF IndexOf(part) < Len(cur.e) THEN Unhole(cur.e[IndexOf(part) + 1]) ELSE UNDEF
         ELSE IF part \in DOMAIN cur.m THEN cur.m[part] ELSE UNDEF
    [] cur.t = "string" ->
         IF IsIndex(part) /\ IndexOf(part) < Len(Chars(cur.s))
         THEN Str(Chars(cur.s)[IndexOf(part) + 1])
         ELSE UNDEF
    [] OTHER -> UNDEF

\* part in current: a TypeError unless current is an object or an array
PropIn(part, cur) ==
  CASE cur.t = "object" -> [thrown |-> FALSE, val |-> part \in DOMAIN cur.m]
    [] cur.t = "array" ->
         [thrown |-> FALSE,
          val |-> IF IsIndex(part)
                  THEN IndexOf(part) < Len(cur.e) /\ cur.e[IndexOf(part) + 1] # HOLE
                  ELSE part \in DOMAIN cur.m]
    [] OTHER -> [thrown |-> TRUE, val |-> FALSE]

Holes(n) == [i \in 1..n |-> HOLE]

\* current[part] = v: a TypeError on null, undefined and on a primitive
PropAssign(cur, part, v) ==
  CASE cur.t = "object" -> [thrown |-> FALSE, val |-> [cur EXCEPT !.m = Put(cur.m, part, v)]]
    [] cur.t = "array" ->
         IF IsIndex(part)
         THEN IF IndexOf(part) < Len(cur.e)
              THEN [thrown |-> FALSE, val |-> [cur EXCEPT !.e[IndexOf(part) + 1] = v]]
              ELSE [thrown |-> FALSE,
                    val |-> [cur EXCEPT !.e = cur.e \o Holes(IndexOf(part) - Len(cur.e)) \o <<v>>]]
         ELSE [thrown |-> FALSE, val |-> [cur EXCEPT !.m = Put(cur.m, part, v)]]
    [] OTHER -> [thrown |-> TRUE, val |-> cur]

\* delete current[part]: a TypeError on the (non-configurable) index of a string
PropDelete(cur, part) ==
  CASE cur.t = "object" -> [thrown |-> FALSE, val |-> [cur EXCEPT !.m = Drop(cur.m, part)]]
    [] cur.t = "string" ->
         [thrown |-> IsIndex(part) /\ IndexOf(part) < Len(Chars(cur.s)), val |-> cur]
    [] OTHER -> [thrown |-> FALSE, val |-> cur]

Max(a, b) == IF a > b THEN a ELSE b
Min(a, b) == IF a < b THEN a ELSE b

\* Splice as `delete e[index]` would leave it: the element gone, a hole in its place
SpliceLeavesHole(e, index) ==
  IF 0 <= index /\ index < Len(e) THEN [e EXCEPT ![index + 1] = HOLE] ELSE e

\* Array.prototype.splice(index, 1): a negative index counts from the end
Splice(e, index) ==
  LET start == IF index < 0 THEN Max(Len(e) + index, 0) ELSE Min(index, Len(e))
  IN IF start < Len(e)
     THEN [i \in 1..(Len(e) - 1) |-> IF i <= start THEN e[i] ELSE e[i + 1]]
     ELSE e

\* the parent with its child at part replaced by the child as mutated in place
WithChild(cur, part, child) ==
  IF cur.t \in {"object", "array"} THEN PropAssign(cur, part, child).val ELSE cur

-----------------------------------------------------------------------------
(* Paths and validation (src/src/utils/validation.ts) *)

\* a string path, kept as the sequence path.split(".") yields
PathStr(parts) == [t |-> "string", parts |-> parts]

Dot == "."

RECURSIVE JoinChars(_)
JoinChars(parts) ==
  IF Len(parts) = 1 THEN Chars(parts[1])
  ELSE Chars(Head(parts)) \o <<Dot>> \o JoinChars(Tail(parts))

EndsWith(cs, suffix) ==
  /\ Len(suffix) <= Len(cs)
  /\ SubSeq(cs, Len(cs) - Len(suffix) + 1, Len(cs)) = suffix

NULL_OR_UNDEFINED == "Object cannot be null or undefined"
INVALID_PATH == "Path must be a non-empty string"
SECURITY_VIOLATION == "Security violation detected"
TYPE_ERROR == "TypeError"
NoError == "none"

SecurityValidation == {"__proto__", "constructor", "prototype", "get", "set", "defineProperty"}

\* validateSecurityTerms comparing the whole path, unsplit, with the reserved terms
validateSecurityTermsWholePath(path) ==
  IF Len(path.parts) = 1 /\ path.parts[1] \in SecurityValidation
  THEN SECURITY_VIOLATION ELSE NoError

validateSecurityTerms(path) ==
  IF \E i \in 1..Len(path.parts) : path.parts[i] \in SecurityValidation
  THEN SECURITY_VIOLATION ELSE NoError

\* !path || typeof path !== "string" || !path.trim()
IsInvalidPath(path) ==
  \/ path.t # "string"
  \/ (Len(path.parts) = 1 /\ TrimIsEmpty(path.parts[1]))

\* validateInput looking for reserved segments before its other two checks
validateInputSecurityFirst(o, path) ==
  IF path.t = "string" /\ validateSecurityTerms(path) # NoError THEN SECURITY_VIOLATION
  ELSE IF IsNullish(o) THEN NULL_OR_UNDEFINED
  ELSE IF IsInvalidPath(path) THEN INVALID_PATH
  ELSE NoError

validateInput(o, path) ==
  IF IsNullish(o) THEN NULL_OR_UNDEFINED
  ELSE IF IsInvalidPath(path) THEN INVALID_PATH
  ELSE validateSecurityTerms(path)

\* the two validation calls that open getProp, setProp, hasProp and removeProp
Validate(o, path) ==
  IF validateInput(o, path) # NoError THEN validateInput(o, path)
  ELSE validateSecurityTerms(path)

-----------------------------------------------------------------------------
(* Configuration and path-suffix transformers (src/src/props.ts) *)

NoTransformers == [getProp |-> <<>>, setProp |-> <<>>, hasProp |-> <<>>, removeProp |-> <<>>]

\* InitialConfig with an empty-string fallback preset
InitialConfigEmptyFallback == [fallback |-> Str(""), transformers |-> NoTransformers]

\* let globalConfig: PropsConfig = {}
InitialConfig == [fallback |-> UNDEF, transformers |-> NoTransformers]

\* the transformer functions the callers register in the model
ApplyFn(f, v) ==
  CASE f = "inc" -> IF v.t = "number" THEN Num(v.n + 1) ELSE v
    [] f = "dbl" -> IF v.t = "number" THEN Num(2 * v.n) ELSE v
    [] f = "clone" -> v

\* whether f hands back another object than the one it was given
Detaches(f, v) == f = "clone" /\ v.t \in {"object", "array"}

RECURSIVE ApplyList(_, _, _)
ApplyList(list, value, pathChars) ==
  IF list = <<>> THEN [val |-> value, same |-> TRUE]
  ELSE LET entry == Head(list)
           hit == EndsWith(pathChars, JoinChars(entry.name))
           r == ApplyList(Tail(list),
                          IF hit THEN ApplyFn(entry.fn, value) ELSE value, pathChars)
       IN [val |-> r.val, same |-> r.same /\ ~(hit /\ Detaches(entry.fn, value))]

\* applyTransformers going through the entries from the last to the first
applyTransformersBackwards(value, path, type, cfg) ==
  LET list == cfg.transformers[type]
  IN ApplyList([i \in 1..Len(list) |-> list[Len(list) + 1 - i]], value, JoinChars(path.parts))

applyTransformers(value, path, type, cfg) ==
  ApplyList(cfg.transformers[type], value, JoinChars(path.parts))

Matches(path, type, cfg) ==
  \E i \in 1..Len(cfg.transformers[type]) :
     EndsWith(JoinChars(path.parts), JoinChars(cfg.transformers[type][i].name))

\* props.use: globalConfig = { ...globalConfig, ...config }
Merge(cfg, config) ==
  [fallback |-> IF config.hasFallback THEN config.fallback ELSE cfg.fallback,
   transformers |-> IF config.hasTransformers THEN config.transformers ELSE cfg.transformers]

-----------------------------------------------------------------------------
(* Log events handed to the props logger *)

Ev(operation, path) == [operation |-> operation, path |-> path]

\* how a call ended: the value it returned or the error it raised, the container
\* as the call left it, and the events it logged
Returned(val, o, log) == [kind |-> "return", err |-> NoError, val |-> val, obj |-> o, log |-> log]
Thrown(err, o, log, path) ==
  [kind |-> "throw", err |-> err, val |-> UNDEF, obj |-> o, log |-> log \o <<Ev("error", path)>>]

-----------------------------------------------------------------------------
(* getProp *)

RECURSIVE GetWalk(_, _)
GetWalk(cur, parts) ==
  IF parts = <<>> THEN [nullHit |-> FALSE, val |-> cur]
  ELSE IF IsNullish(cur) THEN [nullHit |-> TRUE, val |-> cur]
  ELSE GetWalk(PropGet(cur, Head(parts)), Tail(parts))

\* FallbackValue with the precedence swapped: globalConfig.fallback ?? defaultValue
FallbackValueGlobalFirst(defaultValue, cfg) ==
  IF IsNullish(cfg.fallback) THEN defaultValue ELSE cfg.fallback

\* defaultValue ?? globalConfig.fallback
FallbackValue(defaultValue, cfg) ==
  IF IsNullish(defaultValue) THEN cfg.fallback ELSE defaultValue

getProp(o, path, defaultValue, cfg) ==
  IF Validate(o, path) # NoError THEN Thrown(Validate(o, path), o, <<>>, path)
  ELSE LET w == GetWalk(o, path.parts)
       IN IF w.nullHit \/ w.val = UNDEF
          THEN Returned(FallbackValue(defaultValue, cfg), o, <<Ev("fallback", path)>>)
          ELSE Returned(applyTransformers(w.val, path, "getProp", cfg).val, o,
                        <<Ev("get", path)>>)

-----------------------------------------------------------------------------
(* setProp *)

NewObject == Obj(EmptyMap)

RECURSIVE SetWalk(_, _, _)
SetWalk(cur, parts, v) ==
  IF IsNullish(cur) THEN [thrown |-> TRUE, val |-> cur]
  ELSE IF Len(parts) = 1 THEN PropAssign(cur, parts[1], v)
  ELSE LET part == Head(parts)
           child == PropGet(cur, part)
       IN IF child = UNDEF
          THEN IF PropAssign(cur, part, NewObject).thrown
               THEN [thrown |-> TRUE, val |-> cur]
               ELSE LET r == SetWalk(NewObject, Tail(parts), v)
                    IN [thrown |-> r.thrown, val |-> PropAssign(cur, part, r.val).val]
          ELSE LET r == SetWalk(child, Tail(parts), v)
               IN [thrown |-> r.thrown, val |-> WithChild(cur, part, r.val)]

setProp(o, path, value, cfg) ==
  IF Validate(o, path) # NoError THEN Thrown(Validate(o, path), o, <<>>, path)
  ELSE LET transformedValue == applyTransformers(value, path, "setProp", cfg).val
           r == SetWalk(o, path.parts, transformedValue)
       IN IF r.thrown THEN Thrown(TYPE_ERROR, r.val, <<Ev("set", path)>>, path)
          ELSE Returned(r.val, r.val, <<Ev("set", path)>>)

-----------------------------------------------------------------------------
(* hasProp *)

RECURSIVE HasWalk(_, _)
HasWalk(cur, parts) ==
  IF parts = <<>> THEN [thrown |-> FALSE, val |-> TRUE]
  ELSE IF IsNullish(cur) THEN [thrown |-> FALSE, val |-> FALSE]
  ELSE IF PropIn(Head(parts), cur).thrown THEN [thrown |-> TRUE, val |-> FALSE]
  ELSE IF ~PropIn(Head(parts), cur).val THEN [thrown |-> FALSE, val |-> FALSE]
  ELSE HasWalk(PropGet(cur, Head(parts)), Tail(parts))

Bool(b) == [t |-> "boolean", b |-> b]

hasProp(o, path, cfg) ==
  IF Validate(o, path) # NoError THEN Thrown(Validate(o, path), o, <<>>, path)
  ELSE LET r == HasWalk(o, path.parts)
       IN IF r.thrown THEN Thrown(TYPE_ERROR, o, <<Ev("has", path)>>, path)
          ELSE Returned(Bool(r.val), o, <<Ev("has", path)>>)

-----------------------------------------------------------------------------
(* removeProp *)

\* RemoveLast taking the value at the last segment for the sequence to splice:
\* a sequence found there loses its first element instead of the key being deleted
RemoveLastOnTarget(cur, lastPart) ==
  IF IsNullish(cur) THEN [thrown |-> FALSE, val |-> cur]
  ELSE IF cur.t = "array"
  THEN IF ParseInt(lastPart).nan THEN [thrown |-> FALSE, val |-> cur]
       ELSE [thrown |-> FALSE, val |-> [cur EXCEPT !.e = Splice(cur.e, ParseInt(lastPart).n)]]
  ELSE IF cur.t = "object" /\ PropGet(cur, lastPart).t = "array"
  THEN [thrown |-> FALSE,
        val |-> WithChild(cur, lastPart,
                          [PropGet(cur, lastPart) EXCEPT !.e = Splice(PropGet(cur, lastPart).e, 0)])]
  ELSE PropDelete(cur, lastPart)

\* the last segment, on the parent the walk reached
RemoveLast(cur, lastPart) ==
  IF IsNullish(cur) THEN [thrown |-> FALSE, val |-> cur]
  ELSE IF cur.t = "array"
  THEN IF ParseInt(lastPart).nan THEN [thrown |-> FALSE, val |-> cur]
       ELSE [thrown |-> FALSE, val |-> [cur EXCEPT !.e = Splice(cur.e, ParseInt(lastPart).n)]]
  ELSE PropDelete(cur, lastPart)

RECURSIVE RemoveWalk(_, _)
RemoveWalk(cur, parts) ==
  IF Len(parts) = 1 THEN RemoveLast(cur, parts[1])
  ELSE IF IsNullish(cur) THEN [thrown |-> FALSE, val |-> cur]
  ELSE LET child == PropGet(cur, Head(parts))
       IN IF child = UNDEF THEN [thrown |-> FALSE, val |-> cur]
          ELSE LET r == RemoveWalk(child, Tail(parts))
               IN [thrown |-> r.thrown, val |-> WithChild(cur, Head(parts), r.val)]

\* removeProp validating its input before it looks at the container
removePropValidatingFirst(o, path, cfg) ==
  IF Validate(o, path) # NoError THEN Thrown(Validate(o, path), o, <<>>, path)
  ELSE LET t == applyTransformers(o, path, "removeProp", cfg)
           r == RemoveWalk(t.val, path.parts)
           after == IF t.same THEN r.val ELSE o
       IN IF r.thrown THEN Thrown(TYPE_ERROR, after, <<Ev("remove", path)>>, path)
          ELSE Returned(after, after, <<Ev("remove", path)>>)

removeProp(o, path, cfg) ==
  IF IsNullish(o) THEN Returned(o, o, <<>>)
  ELSE IF Validate(o, path) # NoError THEN Thrown(Validate(o, path), o, <<>>, path)
  ELSE LET t == applyTransformers(o, path, "removeProp", cfg)
           r == RemoveWalk(t.val, path.parts)
           after == IF t.same THEN r.val ELSE o
       IN IF r.thrown THEN Thrown(TYPE_ERROR, after, <<Ev("remove", path)>>, path)
          ELSE Returned(after, after, <<Ev("remove", path)>>)

-----------------------------------------------------------------------------
(* Text (src/src/index.ts): a template, an expression and a rendered result   *)
(* are sequences of atoms.  The punctuation the engine looks at is one atom   *)
(* per character ("{", "}", "|", ":", ",", ".", " ", quotes, "$", "&", the    *)
(* digits and the sign); a run of other characters (an identifier, a word of  *)
(* static text) is one atom.  Join gives the string a text spells.            *)

RECURSIVE Join(_)
Join(cs) == IF cs = <<>> THEN "" ELSE Head(cs) \o Join(Tail(cs))

\* the atoms of every atom, in order
RECURSIVE Flat(_)
Flat(cs) == IF cs = <<>> THEN <<>> ELSE Chars(Head(cs)) \o Flat(Tail(cs))

RECURSIVE TrimStart(_)
TrimStart(cs) == IF cs # <<>> /\ IsWhite(Head(cs)) THEN TrimStart(Tail(cs)) ELSE cs

RECURSIVE TrimEnd(_)
TrimEnd(cs) ==
  IF cs # <<>> /\ IsWhite(cs[Len(cs)]) THEN TrimEnd(SubSeq(cs, 1, Len(cs) - 1)) ELSE cs

\* String.prototype.trim
Trim(cs) == TrimEnd(TrimStart(cs))

RECURSIVE SplitFrom(_, _, _)
SplitFrom(cs, sep, cur) ==
  IF cs = <<>> THEN <<cur>>
  ELSE IF Head(cs) = sep THEN <<cur>> \o SplitFrom(Tail(cs), sep, <<>>)
  ELSE SplitFrom(Tail(cs), sep, Append(cur, Head(cs)))

\* String.prototype.split(sep) for a one-character separator
Split(cs, sep) == SplitFrom(cs, sep, <<>>)

\* String.prototype.indexOf(c), counted from 1; 0 when c does not occur
IndexOfAtom(cs, c) ==
  IF \E i \in 1..Len(cs) : cs[i] = c
  THEN CHOOSE i \in 1..Len(cs) : cs[i] = c /\ \A j \in 1..(i - 1) : cs[j] # c
  ELSE 0

\* the path a text spells: its split(".") with every segment as a string
PathOf(cs) == PathStr([i \in 1..Len(Split(cs, Dot)) |-> Join(Split(cs, Dot)[i])])

DigitChar(d) ==
  CASE d = 0 -> "0" [] d = 1 -> "1" [] d = 2 -> "2" [] d = 3 -> "3" [] d = 4 -> "4"
    [] d = 5 -> "5" [] d = 6 -> "6" [] d = 7 -> "7" [] d = 8 -> "8" [] d = 9 -> "9"

RECURSIVE DigitsOf(_)
DigitsOf(n) == IF n < 10 THEN <<DigitChar(n)>> ELSE Append(DigitsOf(n \div 10), DigitChar(n % 10))

\* Number.prototype.toString of an integer
NumText(n) == IF n < 0 THEN <<"-">> \o DigitsOf(0 - n) ELSE DigitsOf(n)

\* Number(text) for the texts of the model: "" is 0, an optionally signed run
\* of digits is that integer, anything else is NaN
ToNumber(cs) ==
  LET fs == Flat(cs)
      neg == fs # <<>> /\ Head(fs) = "-"
      ds == IF fs # <<>> /\ Head(fs) \in {"-", "+"} THEN Tail(fs) ELSE fs
  IN IF fs = <<>> THEN [nan |-> FALSE, n |-> 0]
     ELSE IF ds = <<>> \/ \E i \in 1..Len(ds) : ~(ds[i] \in Digits) THEN NaN
     ELSE [nan |-> FALSE, n |-> IF neg THEN 0 - DigitsValue(ds, 0) ELSE DigitsValue(ds, 0)]

NAN == [t |-> "nan"]

\* Array.prototype.join(",") over the texts of the elements
RECURSIVE CommaJoin(_)
CommaJoin(ts) ==
  IF ts = <<>> THEN <<>>
  ELSE IF Len(ts) = 1 THEN ts[1]
  ELSE ts[1] \o <<",">> \o CommaJoin(Tail(ts))

\* String(value)
RECURSIVE ToText(_)
ToText(v) ==
  CASE v.t = "undefined" -> <<"undefined">>
    [] v.t = "null" -> <<"null">>
    [] v.t = "nan" -> <<"NaN">>
    [] v.t = "number" -> NumText(v.n)
    [] v.t = "string" -> Chars(v.s)
    [] v.t = "boolean" -> IF v.b THEN <<"true">> ELSE <<"false">>
    [] v.t = "object" -> <<"[object Object]">>
    [] v.t = "array" ->
         CommaJoin([i \in 1..Len(v.e) |->
                      IF v.e[i].t \in {"undefined", "null", "hole"} THEN <<>> ELSE ToText(v.e[i])])

\* the string value a text spells
Txt(cs) == Str(Join(cs))

\* the first position at which pat occurs in cs; 0 when it does not
FirstOccurrence(cs, pat) ==
  LET hits == {p \in 1..(Len(cs) - Len(pat) + 1) : SubSeq(cs, p, p + Len(pat) - 1) = pat}
  IN IF hits = {} THEN 0 ELSE CHOOSE p \in hits : \A q \in hits : p <= q

\* GetSubstitution: "$$", "$&", "$`" and "$'" in the replacement text
RECURSIVE GetSubstitution(_, _, _, _)
GetSubstitution(rep, matched, before, after) ==
  IF rep = <<>> THEN <<>>
  ELSE IF Head(rep) = "$" /\ Len(rep) >= 2 /\ rep[2] \in {"$", "&", "`", "'"}
  THEN (CASE rep[2] = "$" -> <<"$">>
          [] rep[2] = "&" -> matched
          [] rep[2] = "`" -> before
          [] rep[2] = "'" -> after)
       \o GetSubstitution(SubSeq(rep, 3, Len(rep)), matched, before, after)
  ELSE <<Head(rep)>> \o GetSubstitution(Tail(rep), matched, before, after)

\* String.prototype.replace(pat, rep) with a string pattern: the first
\* occurrence only, the replacement text read for its "$" patterns
Replace(cs, pat, rep) ==
  LET p == FirstOccurrence(cs, pat)
      before == SubSeq(cs, 1, p - 1)
      after == SubSeq(cs, p + Len(pat), Len(cs))
  IN IF p = 0 THEN cs ELSE before \o GetSubstitution(rep, pat, before, after) \o after

\* where the match of /\{\{([^}]+)\}\}/ that starts at i ends; 0 when none starts there
MatchEnd(cs, i) ==
  IF i + 1 <= Len(cs) /\ cs[i] = "{" /\ cs[i + 1] = "{"
  THEN LET closes == {j \in (i + 2)..Len(cs) : cs[j] = "}"}
           j == IF closes = {} THEN 0 ELSE CHOOSE c \in closes : \A d \in closes : c <= d
       IN IF j > i + 2 /\ j + 1 <= Len(cs) /\ cs[j + 1] = "}" THEN j + 1 ELSE 0
  ELSE 0

\* template.match(/\{\{([^}]+)\}\}/g): the matches from position i on, in source order
RECURSIVE MatchesFrom(_, _)
MatchesFrom(cs, i) ==
  IF i > Len(cs) THEN <<>>
  ELSE IF MatchEnd(cs, i) > 0
  THEN <<SubSeq(cs, i, MatchEnd(cs, i))>> \o MatchesFrom(cs, MatchEnd(cs, i) + 1)
  ELSE MatchesFrom(cs, i + 1)

\* TemplateEngine.extractTemplateContent of a match
extractTemplateContent(match) == Trim(SubSeq(match, 3, Len(match) - 2))

-----------------------------------------------------------------------------
(* The template engine's registry and the functions callers register *)

EMPTY_PATH == "Empty path in template"
FUNCTION_ERROR == "Error evaluating function"
TRANSFORMER_ERROR == "Transformer error"
INVALID_OBJECT == "Template data must be an object"
NAME_REQUIRED == "Transform name is required"

\* transformers = {}, defaultTransformer = (value) => value, defaultValue = ""
InitialRegistry ==
  [hasTransformers |-> TRUE, transformers |-> EmptyMap, defaultTransformer |-> "identity",
   defaultValue |-> Str("")]

\* use merging the new mapping into the registered one
useMerging(reg, config) ==
  [hasTransformers |-> config.hasTransformers \/ reg.hasTransformers,
   transformers |-> [n \in DOMAIN reg.transformers \cup DOMAIN config.transformers |->
                       IF n \in DOMAIN config.transformers THEN config.transformers[n]
                       ELSE reg.transformers[n]],
   defaultTransformer |-> IF config.hasDefault THEN config.default ELSE reg.defaultTransformer,
   defaultValue |-> IF config.hasFallback THEN config.fallback ELSE reg.defaultValue]

\* TemplateEngine.use
use(reg, config) ==
  [hasTransformers |-> config.hasTransformers,
   transformers |-> config.transformers,
   defaultTransformer |-> IF config.hasDefault THEN config.default ELSE reg.defaultTransformer,
   defaultValue |-> IF config.hasFallback THEN config.fallback ELSE reg.defaultValue]

\* the members of Object.prototype a lookup by name on the transformers object
\* finds when the object has no own property of that name
InheritedNames == {"constructor", "toString", "valueOf", "__proto__"}

\* the function such a member is; "__proto__" gives the prototype object, which
\* cannot be called
InheritedMember(name) ==
  CASE name = "constructor" -> "Object"
    [] name = "toString" -> "Object.prototype.toString"
    [] name = "valueOf" -> "Object.prototype.valueOf"
    [] name = "__proto__" -> "Object.prototype"

\* this.transformers[transformName] || this.defaultTransformer
Lookup(reg, name) ==
  IF name \in DOMAIN reg.transformers THEN reg.transformers[name]
  ELSE IF name \in InheritedNames THEN InheritedMember(name)
  ELSE reg.defaultTransformer

\* ToPrimitive of an operand of +
Prim(v) == IF v.t \in {"object", "array"} THEN Txt(ToText(v)) ELSE v

\* ToNumber of a value
NumberOf(v) ==
  CASE v.t = "number" -> [nan |-> FALSE, n |-> v.n]
    [] v.t = "null" -> [nan |-> FALSE, n |-> 0]
    [] v.t = "boolean" -> [nan |-> FALSE, n |-> IF v.b THEN 1 ELSE 0]
    [] v.t \in {"string", "object", "array"} -> ToNumber(Trim(ToText(v)))
    [] OTHER -> NaN

\* a + b
Plus(a, b) ==
  IF Prim(a).t = "string" \/ Prim(b).t = "string" THEN Txt(ToText(a) \o ToText(b))
  ELSE IF NumberOf(a).nan \/ NumberOf(b).nan THEN NAN
  ELSE Num(NumberOf(a).n + NumberOf(b).n)

\* a * b
Times(a, b) ==
  IF NumberOf(a).nan \/ NumberOf(b).nan THEN NAN ELSE Num(NumberOf(a).n * NumberOf(b).n)

\* the i-th argument a function receives (undefined when it was not passed)
ArgAt(args, i) == IF i <= Len(args) THEN args[i] ELSE UNDEF

\* calling fn(value, ...args) and awaiting what it returns
CallFn(fn, value, args) ==
  CASE fn = "add" -> [thrown |-> FALSE, err |-> NoError, val |-> Plus(value, ArgAt(args, 1))]
    [] fn = "multiply" -> [thrown |-> FALSE, err |-> NoError, val |-> Times(value, ArgAt(args, 1))]
    [] fn = "error" -> [thrown |-> TRUE, err |-> TRANSFORMER_ERROR, val |-> UNDEF]
    [] fn = "identity" -> [thrown |-> FALSE, err |-> NoError, val |-> value]
    [] fn = "brand" -> [thrown |-> FALSE, err |-> NoError, val |-> Str("D")]
    [] fn = "Object" ->
         [thrown |-> FALSE, err |-> NoError,
          val |-> IF IsNullish(value) THEN Obj(EmptyMap) ELSE value]
    [] fn = "Object.prototype.toString" ->
         [thrown |-> FALSE, err |-> NoError, val |-> Str("[object Undefined]")]
    [] OTHER -> [thrown |-> TRUE, err |-> TYPE_ERROR, val |-> UNDEF]

\* the function slots of the tagged literals: key(data)
CallSlot(key, data) ==
  CASE key.f = "readX" ->
         IF IsNullish(data) THEN [thrown |-> TRUE, err |-> TYPE_ERROR, val |-> UNDEF]
         ELSE [thrown |-> FALSE, err |-> NoError, val |-> PropGet(data, "x")]
    [] key.f = "giveNull" -> [thrown |-> FALSE, err |-> NoError, val |-> NULL]
    [] key.f = "giveZero" -> [thrown |-> FALSE, err |-> NoError, val |-> Num(0)]
    [] OTHER -> [thrown |-> TRUE, err |-> "Function error", val |-> UNDEF]

\* one argument of processArgs, already trimmed by applyTransform
ProcessArg(arg, data, cfg) ==
  LET trimmedArg == Trim(arg)
      quoted(q) == trimmedArg # <<>> /\ Head(trimmedArg) = q /\ trimmedArg[Len(trimmedArg)] = q
      looked == getProp(data, PathOf(trimmedArg), UNDEF, cfg)
  IN IF quoted("\"") \/ quoted("'") THEN Txt(SubSeq(trimmedArg, 2, Len(trimmedArg) - 1))
     ELSE IF ~ToNumber(trimmedArg).nan THEN Num(ToNumber(trimmedArg).n)
     ELSE IF trimmedArg = <<"true">> THEN Bool(TRUE)
     ELSE IF trimmedArg = <<"false">> THEN Bool(FALSE)
     ELSE IF trimmedArg = <<"null">> THEN NULL
     ELSE IF trimmedArg = <<"undefined">> THEN UNDEF
     ELSE IF looked.kind = "return" /\ looked.val # UNDEF THEN looked.val
     ELSE Txt(trimmedArg)

\* TemplateEngine.processArgs
processArgs(args, data, cfg) == [i \in 1..Len(args) |-> ProcessArg(args[i], data, cfg)]

\* applyTransform up to the call of the transform: the name, the function the
\* registry gives for it, whether the warning is logged, and the arguments
ParseTransform(transformExpr, reg, data, cfg) ==
  LET colonIndex == IndexOfAtom(transformExpr, ":")
      transformName == IF colonIndex = 0 THEN transformExpr
                       ELSE Trim(SubSeq(transformExpr, 1, colonIndex - 1))
      argsStr == IF colonIndex = 0 THEN <<>>
                 ELSE Trim(SubSeq(transformExpr, colonIndex + 1, Len(transformExpr)))
      rawArgs == IF argsStr = <<>> THEN <<>>
                 ELSE [i \in 1..Len(Split(argsStr, ",")) |-> Trim(Split(argsStr, ",")[i])]
  IN IF transformName = <<>>
     THEN [err |-> NAME_REQUIRED, name |-> "", fn |-> "", warned |-> FALSE, args |-> <<>>]
     ELSE IF ~reg.hasTransformers
     THEN [err |-> TYPE_ERROR, name |-> Join(transformName), fn |-> "", warned |-> FALSE,
           args |-> <<>>]
     ELSE [err |-> NoError, name |-> Join(transformName),
           fn |-> Lookup(reg, Join(transformName)),
           warned |-> Lookup(reg, Join(transformName)) = reg.defaultTransformer,
           args |-> processArgs(rawArgs, data, cfg)]

\* TemplateEngine.extractTransformers: the path, the transform expressions, and
\* the security check of each of them
extractTransformers(transformStr) ==
  LET parts == [i \in 1..Len(Split(transformStr, "|")) |-> Trim(Split(transformStr, "|")[i])]
      path == parts[1]
      transformers == Tail(parts)
  IN [path |-> path, transformers |-> transformers,
      err |-> IF validateSecurityTerms(PathOf(path)) # NoError THEN SECURITY_VIOLATION
              ELSE IF \E i \in 1..Len(transformers) :
                        validateSecurityTerms(PathOf(transformers[i])) # NoError
              THEN SECURITY_VIOLATION
              ELSE NoError]

\* typeof data === "object" && data (what validateTemplateContext accepts)
IsObjectData(data) == data.t \in {"object", "array"}

\* validateTemplateContext without its check of the path for emptiness
validateTemplateContextDataOnly(data, path) ==
  IF ~IsObjectData(data) THEN INVALID_OBJECT
  ELSE validateSecurityTerms(PathOf(path))

\* TemplateEngine.validateTemplateContext for operation "template"
validateTemplateContext(data, path) ==
  IF ~IsObjectData(data) THEN INVALID_OBJECT
  ELSE IF Trim(path) = <<>> THEN EMPTY_PATH
  ELSE validateSecurityTerms(PathOf(path))

-----------------------------------------------------------------------------
(* One render call (src/src/index.ts): processTemplate, processTemplateMatch, *)
(* applyTransform and processTaggedTemplate, cut at their awaits.  A render   *)
(* is suspended either on a transform or a function slot it has called        *)
(* (phase "transform", "function") or on the promise of a finished match      *)
(* (phase "hop").                                                             *)

TEv(level, operation, path) == [level |-> level, operation |-> operation, path |-> path]

NoPending == [name |-> "", fn |-> "", value |-> UNDEF, args |-> <<>>]

\* a string slot, a function slot of a tagged literal
TextKey(cs) == [t |-> "text", cs |-> cs]
FnKey(f) == [t |-> "function", f |-> f]

NewRender(kind, tpl, keys, data) ==
  [kind |-> kind, tpl |-> tpl, keys |-> keys, data |-> data,
   status |-> "running", phase |-> "start", matches |-> <<>>, k |-> 1,
   chain |-> <<>>, i |-> 1, value |-> UNDEF, pending |-> NoPending,
   result |-> <<>>, subs |-> <<>>, settled |-> "pending", returned |-> <<>>, err |-> NoError,
   calls |-> <<>>, log |-> <<>>]

\* Fail swallowing the error: the render resolves with what it has substituted
FailReturningPartial(r, err, events) ==
  [r EXCEPT !.status = "complete", !.phase = "done", !.pending = NoPending,
            !.settled = "resolved", !.returned = r.result, !.log = @ \o events]

\* the promise of the render call rejects with err
Fail(r, err, events) ==
  [r EXCEPT !.status = "failed", !.phase = "done", !.err = err, !.pending = NoPending,
            !.settled = "rejected", !.log = @ \o events]

\* the promise of the render call resolves with the result
Complete(r) ==
  [r EXCEPT !.status = "complete", !.phase = "done", !.pending = NoPending,
            !.settled = "resolved", !.returned = r.result,
            !.log = @ \o <<TEv("log", "transform", "complete")>>]

\* the transform call the render now waits for
Invoke(r, p) ==
  [r EXCEPT !.phase = "transform",
            !.pending = [name |-> p.name, fn |-> p.fn, value |-> r.value, args |-> p.args],
            !.calls = Append(@, [k |-> r.k, name |-> p.name, fn |-> p.fn, value |-> r.value,
                                 args |-> p.args, settled |-> FALSE, out |-> UNDEF]),
            !.log = @ \o (IF p.warned THEN <<TEv("warn", "applyTransform", p.name)>> ELSE <<>>)]

\* processTemplateMatch from its loop over the transformers, at stage r.i
Stage(r, reg, cfg) ==
  IF r.i > Len(r.chain) THEN [r EXCEPT !.phase = "hop"]
  ELSE LET p == ParseTransform(r.chain[r.i], reg, r.data, cfg)
       IN IF p.err # NoError
          THEN Fail(r, p.err, <<TEv("error", "applyTransform", p.err),
                                TEv("error", Join(r.chain[r.i]), p.err),
                                TEv("error", "processTemplate", p.err)>>)
          ELSE Invoke(r, p)

\* processTemplate from its loop over the matches, at match r.k
EvalMatch(r, reg, cfg) ==
  IF r.k > Len(r.matches) THEN Complete(r)
  ELSE LET content == extractTemplateContent(r.matches[r.k])
           x == extractTransformers(content)
           looked == getProp(r.data, PathOf(x.path), UNDEF, cfg)
           missing == looked.val = UNDEF
       IN IF content = <<>>
          THEN Fail(r, EMPTY_PATH, <<TEv("error", "processTemplateMatch", EMPTY_PATH),
                                     TEv("error", "processTemplate", EMPTY_PATH)>>)
          ELSE IF x.err # NoError
          THEN Fail(r, x.err, <<TEv("error", "processTemplate", x.err)>>)
          ELSE IF validateTemplateContext(r.data, x.path) # NoError
          THEN Fail(r, validateTemplateContext(r.data, x.path),
                    <<TEv("error", "processTemplate", validateTemplateContext(r.data, x.path))>>)
          ELSE IF looked.kind = "throw"
          THEN Fail(r, looked.err, <<TEv("error", "processTemplate", looked.err)>>)
          ELSE Stage([r EXCEPT !.chain = x.transformers, !.i = 1,
                               !.value = IF missing THEN reg.defaultValue ELSE looked.val,
                               !.log = @ \o <<TEv("log", "get", Join(x.path))>>
                                         \o (IF missing
                                             THEN <<TEv("log", "fallback", Join(x.path))>>
                                             ELSE <<>>)],
                     reg, cfg)

\* the call template(str)(data): processTemplate up to its first await
processTemplate(template, data, reg, cfg) ==
  EvalMatch([NewRender("brace", template, <<>>, data) EXCEPT
               !.matches = MatchesFrom(template, 1), !.result = template,
               !.log = <<TEv("log", "transform", "start")>>],
            reg, cfg)

\* SettleTransform leaving the running value as the path gave it, so that
\* every stage is handed the resolved path value
SettleTransformFromPathValue(r, reg, cfg) ==
  LET out == CallFn(r.pending.fn, r.pending.value, r.pending.args)
      done == [r EXCEPT !.calls[Len(r.calls)].settled = TRUE,
                        !.calls[Len(r.calls)].out = out.val,
                        !.pending = NoPending]
  IN IF out.thrown
     THEN Fail(done, out.err, <<TEv("error", r.pending.name, out.err),
                                TEv("error", Join(r.chain[r.i]), out.err),
                                TEv("error", "processTemplate", out.err)>>)
     ELSE Stage([done EXCEPT !.i = r.i + 1,
                             !.log = @ \o <<TEv("log", "transform", r.pending.name)>>],
                reg, cfg)

\* the pending transform has settled: applyTransform's continuation, then the
\* next stage of the chain
SettleTransform(r, reg, cfg) ==
  LET out == CallFn(r.pending.fn, r.pending.value, r.pending.args)
      done == [r EXCEPT !.calls[Len(r.calls)].settled = TRUE,
                        !.calls[Len(r.calls)].out = out.val,
                        !.pending = NoPending]
  IN IF out.thrown
     THEN Fail(done, out.err, <<TEv("error", r.pending.name, out.err),
                                TEv("error", Join(r.chain[r.i]), out.err),
                                TEv("error", "processTemplate", out.err)>>)
     ELSE Stage([done EXCEPT !.value = out.val, !.i = r.i + 1,
                             !.log = @ \o <<TEv("log", "transform", r.pending.name)>>],
                reg, cfg)

\* SubstituteMatch going on to the next match with the substitution left out
SubstituteMatchLater(r, reg, cfg) == EvalMatch([r EXCEPT !.k = r.k + 1], reg, cfg)

\* the promise of the match has been awaited: result.replace(match, value),
\* then the next match
SubstituteMatch(r, reg, cfg) ==
  EvalMatch([r EXCEPT !.result = Replace(r.result, r.matches[r.k], ToText(r.value)),
                      !.subs = Append(@, ToText(r.value)),
                      !.k = r.k + 1],
            reg, cfg)

\* String(value), which gives text for null and undefined as well
ToStringAlways(v) == ToText(v)

\* value?.toString() || ""
ToStringOrEmpty(v) == IF IsNullish(v) THEN <<>> ELSE ToText(v)

\* getProp(data, path) ?? ""
GetOrEmpty(data, path, cfg) ==
  IF IsNullish(getProp(data, path, UNDEF, cfg).val) THEN Str("")
  ELSE getProp(data, path, UNDEF, cfg).val

\* transformers.join("|")
RECURSIVE PipeJoin(_)
PipeJoin(ts) ==
  IF ts = <<>> THEN <<>>
  ELSE IF Len(ts) = 1 THEN ts[1]
  ELSE ts[1] \o <<"|">> \o PipeJoin(Tail(ts))

\* processTaggedTemplate from its loop over the fragments, at fragment r.k
RECURSIVE TaggedLoop(_, _, _)
TaggedLoop(r, reg, cfg) ==
  IF r.k > Len(r.tpl) THEN Complete(r)
  ELSE LET added == [r EXCEPT !.result = @ \o r.tpl[r.k]]
       IN IF r.k > Len(r.keys) THEN TaggedLoop([added EXCEPT !.k = r.k + 1], reg, cfg)
          ELSE LET key == r.keys[r.k]
               IN IF key.t = "function"
                  THEN [added EXCEPT !.phase = "function",
                                     !.calls = Append(@, [k |-> r.k, name |-> "function",
                                                          fn |-> key.f, value |-> r.data,
                                                          args |-> <<>>, settled |-> FALSE,
                                                          out |-> UNDEF])]
                  ELSE IF key.t # "text"
                  THEN TaggedLoop([added EXCEPT !.result = @ \o ToStringOrEmpty(key),
                                                !.k = r.k + 1,
                                                !.log = @ \o <<TEv("log", "transform", "literal")>>],
                                  reg, cfg)
                  ELSE IF IndexOfAtom(key.cs, "|") = 0
                  THEN IF validateTemplateContext(r.data, key.cs) # NoError
                       THEN Fail(added, validateTemplateContext(r.data, key.cs), <<>>)
                       ELSE IF getProp(r.data, PathOf(key.cs), UNDEF, cfg).kind = "throw"
                       THEN Fail(added, getProp(r.data, PathOf(key.cs), UNDEF, cfg).err, <<>>)
                       ELSE TaggedLoop(
                              [added EXCEPT
                                 !.result = @ \o ToStringOrEmpty(
                                                   GetOrEmpty(r.data, PathOf(key.cs), cfg)),
                                 !.k = r.k + 1,
                                 !.log = @ \o <<TEv("log", "get", Join(key.cs))>>],
                              reg, cfg)
                  ELSE LET x == extractTransformers(key.cs)
                           valued == [added EXCEPT
                                        !.value = GetOrEmpty(r.data, PathOf(x.path), cfg),
                                        !.chain = <<PipeJoin(x.transformers)>>, !.i = 1,
                                        !.log = @ \o <<TEv("log", "get", Join(x.path))>>]
                           p == ParseTransform(PipeJoin(x.transformers), reg, r.data, cfg)
                       IN IF x.err # NoError THEN Fail(added, x.err, <<>>)
                          ELSE IF validateTemplateContext(r.data, x.path) # NoError
                          THEN Fail(added, validateTemplateContext(r.data, x.path), <<>>)
                          ELSE IF getProp(r.data, PathOf(x.path), UNDEF, cfg).kind = "throw"
                          THEN Fail(added, getProp(r.data, PathOf(x.path), UNDEF, cfg).err, <<>>)
                          ELSE IF p.err # NoError
                          THEN Fail(valued, p.err, <<TEv("error", "applyTransform", p.err)>>)
                          ELSE Invoke(valued, p)

\* the call template`...`(data): processTaggedTemplate up to its first await
processTaggedTemplate(strings, keys, data, reg, cfg) ==
  TaggedLoop([NewRender("tagged", strings, keys, data) EXCEPT
                !.log = <<TEv("log", "transform", "start")>>],
             reg, cfg)

\* the function slot or the transform the tagged render waits for has settled
SettleTagged(r, reg, cfg) ==
  LET out == IF r.phase = "function" THEN CallSlot(r.keys[r.k], r.data)
             ELSE CallFn(r.pending.fn, r.pending.value, r.pending.args)
      done == [r EXCEPT !.calls[Len(r.calls)].settled = TRUE,
                        !.calls[Len(r.calls)].out = out.val,
                        !.pending = NoPending]
  IN IF out.thrown
     THEN Fail(done, IF r.phase = "function" THEN FUNCTION_ERROR ELSE out.err,
               <<TEv("error", IF r.phase = "function" THEN "function" ELSE r.pending.name,
                     out.err)>>)
     ELSE TaggedLoop([done EXCEPT !.result = @ \o ToStringOrEmpty(out.val),
                                  !.k = r.k + 1,
                                  !.log = @ \o <<TEv("log", "transform",
                                                     IF r.phase = "function" THEN "function"
                                                     ELSE r.pending.name)>>],
                     reg, cfg)

-----------------------------------------------------------------------------
(* Inputs *)

RECURSIVE SeqsUpTo(_, _)
SeqsUpTo(S, n) ==
  IF n = 0 THEN {<<>>}
  ELSE LET shorter == SeqsUpTo(S, n - 1)
       IN shorter \cup {Append(q, x) : q \in {r \in shorter : Len(r) = n - 1}, x \in S}

PathsOver(S) == {PathStr(q) : q \in SeqsUpTo(S, MaxPathLen) \ {<<>>}}

\* segments of well-formed paths: present and absent keys, indices in and out of
\* range, and the numeric look-alikes "-1" and "1x"
PlainSegments == {"a", "b", "0", "1", "2", "-1", "1x"}
PlainPaths == PathsOver(PlainSegments)

\* segments of the paths validation has to refuse, with one plain segment
BlankSegments == {"", " "}
ReservedIdentifiers == {"__proto__", "constructor", "prototype", "get", "set", "defineProperty"}
GuardSegments == {"a"} \cup ReservedIdentifiers \cup BlankSegments
NonStringPaths == {UNDEF, NULL, Num(0), Num(5)}
GuardPaths == PathsOver(GuardSegments) \cup NonStringPaths

M2(k1, v1, k2, v2) == Put(Put(EmptyMap, k1, v1), k2, v2)
M1(k1, v1) == Put(EmptyMap, k1, v1)

\* the containers a run starts from
Containers ==
  { Obj(EmptyMap),
    Obj(M2("a", Obj(M2("b", Num(1), "a", NULL)), "b", Arr(<<Num(10), Num(20), Num(30)>>))),
    Obj(Put(Put(M2("a", NULL, "b", Str("hi")), "0", Num(5)), "1", UNDEF)),
    Obj(M2("a", Arr(<<Obj(M1("b", Num(1))), HOLE, Arr(<<Num(7), Num(8)>>)>>),
           "b", Obj(M1("a", Obj(M1("b", Num(2))))))),
    Arr(<<Num(1), Num(2), Num(3)>>) }

NullishContainers == {NULL, UNDEF}

Values == {UNDEF, NULL, Num(7), Arr(<<Num(1)>>)}
Defaults == {UNDEF, NULL, Str("X")}

E(name, fn) == [name |-> name, fn |-> fn]

TransformerSets ==
  { [NoTransformers EXCEPT !.getProp = <<E(<<"b">>, "inc"), E(<<"a", "b">>, "dbl")>>],
    [NoTransformers EXCEPT !.setProp = <<E(<<"b">>, "inc")>>],
    [NoTransformers EXCEPT !.removeProp = <<E(<<"1">>, "clone")>>] }

Fallbacks == {Str("N/A"), NULL}

ConfigInputs ==
  {[hasFallback |-> TRUE, fallback |-> f, hasTransformers |-> FALSE,
    transformers |-> NoTransformers] : f \in Fallbacks}
  \cup {[hasFallback |-> FALSE, fallback |-> UNDEF, hasTransformers |-> TRUE,
         transformers |-> t] : t \in TransformerSets}

-----------------------------------------------------------------------------
(* The state machine: a caller configures props and calls the four operations *)

NoPath == PathStr(<<"a">>)

Call(op, path, arg, out) ==
  [op |-> op, path |-> path, arg |-> arg, pre |-> obj, cfg |-> globalConfig, out |-> out]

Init ==
  /\ obj \in Containers \cup NullishContainers
  /\ globalConfig = InitialConfig
  /\ last = [op |-> "none", path |-> NoPath, arg |-> UNDEF, pre |-> obj,
             cfg |-> InitialConfig, out |-> Returned(UNDEF, obj, <<>>)]
  /\ ncalls = 0
  /\ used = <<>>
  /\ registry = InitialRegistry
  /\ tused = <<>>
  /\ renders = <<>>

Use(config) ==
  /\ Len(used) < MaxUse
  /\ used' = Append(used, config)
  /\ globalConfig' = Merge(globalConfig, config)
  /\ last' = [op |-> "use", path |-> NoPath, arg |-> UNDEF, pre |-> obj,
              cfg |-> globalConfig, out |-> Returned(UNDEF, obj, <<Ev("transform", NoPath)>>)]
  /\ UNCHANGED <<obj, ncalls, registry, tused, renders>>

GetProp(path, defaultValue) ==
  /\ ncalls < MaxCalls
  /\ ncalls' = ncalls + 1
  /\ LET out == getProp(obj, path, defaultValue, globalConfig)
     IN /\ obj' = out.obj
        /\ last' = Call("getProp", path, defaultValue, out)
  /\ UNCHANGED <<globalConfig, used, registry, tused, renders>>

SetProp(path, value) ==
  /\ ncalls < MaxCalls
  /\ ncalls' = ncalls + 1
  /\ LET out == setProp(obj, path, value, globalConfig)
     IN /\ obj' = out.obj
        /\ last' = Call("setProp", path, value, out)
  /\ UNCHANGED <<globalConfig, used, registry, tused, renders>>

HasProp(path) ==
  /\ ncalls < MaxCalls
  /\ ncalls' = ncalls + 1
  /\ LET out == hasProp(obj, path, globalConfig)
     IN /\ obj' = out.obj
        /\ last' = Call("hasProp", path, UNDEF, out)
  /\ UNCHANGED <<globalConfig, used, registry, tused, renders>>

RemoveProp(path) ==
  /\ ncalls < MaxCalls
  /\ ncalls' = ncalls + 1
  /\ LET out == removeProp(obj, path, globalConfig)
     IN /\ obj' = out.obj
        /\ last' = Call("removeProp", path, UNDEF, out)
  /\ UNCHANGED <<globalConfig, used, registry, tused, renders>>

NextOver(paths) ==
  \/ Len(used) < MaxUse /\ \E config \in ConfigInputs : Use(config)
  \/ ncalls < MaxCalls /\ \E path \in paths, d \in Defaults : GetProp(path, d)
  \/ ncalls < MaxCalls /\ \E path \in paths, v \in Values : SetProp(path, v)
  \/ ncalls < MaxCalls /\ \E path \in paths : HasProp(path)
  \/ ncalls < MaxCalls /\ \E path \in paths : RemoveProp(path)

Next == NextOver(PlainPaths)
NextGuard == NextOver(GuardPaths)

\* calls with well-formed paths
Spec == Init /\ [][Next]_vars

\* calls with the paths validation refuses
SpecGuard == Init /\ [][NextGuard]_vars

-----------------------------------------------------------------------------
(* Inputs of the template engine *)

Braces(body) == <<"{", "{">> \o body \o <<"}", "}">>

\* path | call
Pipe(path, call) == path \o <<" ", "|", " ">> \o call

\* name:args
CallOf(name, args) == <<name, ":">> \o args

ChainBody == Pipe(Pipe(<<"x">>, CallOf("add", <<"1">>)), CallOf("multiply", <<"2">>))

\* expression bodies: plain paths (found, missing, null, nested), chains,
\* unknown and inherited transform names, the argument forms, failing stages
PlainBodies ==
  { <<"x">>, <<"m">>, <<"n">>, <<"a", ".", "b">>, <<"b">>,
    Pipe(<<"x">>, CallOf("add", <<"1">>)),
    ChainBody,
    Pipe(<<"x">>, <<"nope">>),
    Pipe(Pipe(<<"x">>, <<"nope">>), CallOf("add", <<"1">>)),
    Pipe(<<"x">>, <<"toString">>),
    Pipe(<<"x">>, <<"valueOf">>),
    Pipe(<<"x">>, CallOf("add", <<" ", "rate">>)),
    Pipe(<<"x">>, CallOf("add", <<"'", "1", "'">>)),
    Pipe(<<"x">>, CallOf("add", <<"\"", "rate", "\"">>)),
    Pipe(<<"x">>, CallOf("add", <<" ", "missing">>)),
    Pipe(<<"x">>, CallOf("add", <<" ", "a", ".", "b">>)),
    Pipe(<<"x">>, CallOf("add", <<"null">>)),
    Pipe(<<"x">>, CallOf("add", <<"1", ",", " ", "rate">>)),
    Pipe(<<"m">>, CallOf("add", <<"1">>)),
    Pipe(Pipe(<<"x">>, <<"error">>), CallOf("add", <<"1">>)) }

\* expression bodies with a reserved identifier as a transform name, bare and
\* with an argument list, and as a path segment
ReservedBodies ==
  {Pipe(<<"x">>, <<R>>) : R \in ReservedIdentifiers}
  \cup {Pipe(<<"x">>, CallOf(R, <<"1">>)) : R \in ReservedIdentifiers}
  \cup {<<"__proto__">>, <<"x", ".", "constructor">>}

\* expression bodies whose path portion is empty or blank
EmptyPathBodies ==
  { <<" ">>, <<"|">>, <<" ", "|", " ", "add", ":", "1">>, <<"|", " ", "nope">>,
    <<" ", "|", "add", ":", "1", "|", "error">> }

Bodies == PlainBodies \cup ReservedBodies \cup EmptyPathBodies

\* brace templates: one expression between two static words, one expression
\* alone, two expressions, and a template without any expression
Templates ==
  {<<"A">> \o Braces(e) \o <<"B">> : e \in Bodies}
  \cup {Braces(e) : e \in {<<"x">>, <<"m">>, <<"n">>, ChainBody,
                           Pipe(<<"x">>, CallOf("add", <<"1">>)), Pipe(<<"x">>, <<"nope">>)}}
  \cup { Braces(Pipe(<<"x">>, <<"error">>)) \o <<"-">> \o Braces(Pipe(<<"x">>, CallOf("add", <<"1">>))),
         Braces(Pipe(<<"x">>, CallOf("add", <<"1">>))) \o <<"-">> \o Braces(<<"m">>),
         Braces(<<"x">>) \o <<"-">> \o Braces(<<"__proto__">>) \o Braces(ChainBody),
         Braces(<<"a">>) \o <<"-">> \o Braces(<<"b">>),
         Braces(<<"x">>) \o Braces(<<"x">>),
         Braces(Pipe(<<"x">>, CallOf("add", <<"1">>))) \o <<"-">>
           \o Braces(Pipe(<<"x">>, CallOf("add", <<"1">>))),
         <<"A", "{", "{", "}", "}", "B">>,
         <<"A">> }

Literal(strings, keys) == [strings |-> strings, keys |-> keys]

\* tagged literals: one string slot alone, function slots between static
\* fragments, string and function slots mixed, a slot that is neither
TaggedLiterals ==
  {Literal(<<<<>>, <<>>>>, <<TextKey(e)>>) :
     e \in {<<"x">>, <<"m">>, <<"n">>, ChainBody, Pipe(<<"x">>, CallOf("add", <<"1">>)),
            Pipe(<<"x">>, <<"nope">>), Pipe(<<"x">>, <<"__proto__">>), <<" ">>}}
  \cup {Literal(<<<<"A">>, <<"B">>>>, <<FnKey(f)>>) : f \in {"readX", "giveNull", "giveZero", "throws"}}
  \cup { Literal(<<<<"A">>, <<"-">>, <<"B">>>>, <<FnKey("readX"), FnKey("giveZero")>>),
         Literal(<<<<"A">>, <<"-">>, <<"B">>>>, <<FnKey("throws"), FnKey("readX")>>),
         Literal(<<<<"A">>, <<"-">>, <<"B">>>>, <<TextKey(<<"x">>), FnKey("readX")>>),
         Literal(<<<<"A">>, <<"-">>, <<"B">>>>, <<FnKey("giveNull"), Num(5)>>),
         Literal(<<<<"A">>>>, <<>>) }

\* data contexts: an object with found, null and nested values, an object
\* whose strings hold template syntax and a replacement pattern, the empty
\* object, and two values that are not objects
DataContexts ==
  { Obj(Put(Put(M2("x", Num(3), "rate", Num(2)), "n", NULL), "a", Obj(M1("b", Num(1))))),
    Obj(Put(M2("a", Str("{{b}}"), "b", Str("$&")), "x", Num(3))),
    Obj(EmptyMap), NULL, Num(5) }

TestTransformers == Put(Put(M1("add", "add"), "multiply", "multiply"), "error", "error")

TemplateConfig(hasT, t, hasD, d, hasF, f) ==
  [hasTransformers |-> hasT, transformers |-> t, hasDefault |-> hasD, default |-> d,
   hasFallback |-> hasF, fallback |-> f]

\* arguments of template.use: the tests' transformers, the same with a
\* fallback, a fallback alone, transformers with a default transformer
TemplateConfigs ==
  { TemplateConfig(TRUE, TestTransformers, FALSE, "identity", FALSE, Str("")),
    TemplateConfig(TRUE, TestTransformers, FALSE, "identity", TRUE, Str("N/A")),
    TemplateConfig(FALSE, EmptyMap, FALSE, "identity", TRUE, Str("N/A")),
    TemplateConfig(TRUE, M1("add", "add"), TRUE, "brand", FALSE, Str("")) }

-----------------------------------------------------------------------------
(* The state machine of the template engine: the caller configures props and *)
(* the engine, then calls a render, which runs from await to await           *)

TemplateUse(config) ==
  /\ Len(tused) < MaxTemplateUse
  /\ tused' = Append(tused, config)
  /\ registry' = use(registry, config)
  /\ UNCHANGED <<obj, globalConfig, last, ncalls, used, renders>>

Render(template, data) ==
  /\ Len(renders) < MaxRenders
  /\ renders' = Append(renders, processTemplate(template, data, registry, globalConfig))
  /\ UNCHANGED <<obj, globalConfig, last, ncalls, used, registry, tused>>

RenderTagged(literal, data) ==
  /\ Len(renders) < MaxRenders
  /\ renders' = Append(renders, processTaggedTemplate(literal.strings, literal.keys, data,
                                                      registry, globalConfig))
  /\ UNCHANGED <<obj, globalConfig, last, ncalls, used, registry, tused>>

\* Settle resuming the render with the registry as the first call of
\* template.use left it, whatever has been configured since
SettleWithEarlierRegistry(id) ==
  /\ renders[id].status = "running"
  /\ renders[id].phase \in {"transform", "function"}
  /\ LET earlier == IF tused = <<>> THEN InitialRegistry ELSE use(InitialRegistry, tused[1])
     IN renders' = [renders EXCEPT ![id] =
                      IF renders[id].kind = "brace"
                      THEN SettleTransform(renders[id], earlier, globalConfig)
                      ELSE SettleTagged(renders[id], earlier, globalConfig)]
  /\ UNCHANGED <<obj, globalConfig, last, ncalls, used, registry, tused>>

\* the transform or function slot render id waits for settles
Settle(id) ==
  /\ renders[id].status = "running"
  /\ renders[id].phase \in {"transform", "function"}
  /\ renders' = [renders EXCEPT ![id] =
                   IF renders[id].kind = "brace"
                   THEN SettleTransform(renders[id], registry, globalConfig)
                   ELSE SettleTagged(renders[id], registry, globalConfig)]
  /\ UNCHANGED <<obj, globalConfig, last, ncalls, used, registry, tused>>

\* Substitute with one result buffer for the engine: the match is replaced in
\* the text the first render in flight has built so far
SubstituteIntoSharedResult(id) ==
  /\ renders[id].status = "running"
  /\ renders[id].phase = "hop"
  /\ renders' = [renders EXCEPT ![id] =
                   SubstituteMatch([renders[id] EXCEPT !.result = renders[1].result],
                                   registry, globalConfig)]
  /\ UNCHANGED <<obj, globalConfig, last, ncalls, used, registry, tused>>

\* render id resumes after the promise of its finished match
Substitute(id) ==
  /\ renders[id].status = "running"
  /\ renders[id].phase = "hop"
  /\ renders' = [renders EXCEPT ![id] = SubstituteMatch(renders[id], registry, globalConfig)]
  /\ UNCHANGED <<obj, globalConfig, last, ncalls, used, registry, tused>>

NextTemplate ==
  \/ renders = <<>> /\ Len(used) < MaxUse /\ \E config \in ConfigInputs : Use(config)
  \/ renders = <<>> /\ Len(tused) < MaxTemplateUse /\ \E config \in TemplateConfigs : TemplateUse(config)
  \/ renders = <<>> /\ \E template \in Templates, data \in DataContexts : Render(template, data)
  \/ renders = <<>> /\ \E literal \in TaggedLiterals, data \in DataContexts : RenderTagged(literal, data)
  \/ \E id \in DOMAIN renders : Settle(id)
  \/ \E id \in DOMAIN renders : Substitute(id)

InitTemplate == Init /\ obj = Obj(EmptyMap)

\* one render after the configuration calls
SpecTemplate == InitTemplate /\ [][NextTemplate]_vars

\* a render is suspended at an await: on a transform or a function slot
\* (Settle), or on the promise of a finished match (Substitute)
Awaiting(id) ==
  /\ renders[id].status = "running"
  /\ renders[id].phase \in {"transform", "function", "hop"}

Resume == \E id \in DOMAIN renders : Settle(id) \/ Substitute(id)

\* every transform and function slot a render waits for settles, and every
\* awaited promise of the engine itself is resumed by the event loop: weak
\* fairness of Resume, with the condition under which Resume is enabled
\* written out
SpecTemplateFair ==
  /\ SpecTemplate
  /\ \/ []<>(~(\E id \in DOMAIN renders : Awaiting(id)))
     \/ []<><<Resume>>_vars

-----------------------------------------------------------------------------
(* Renders in flight together on the one exported engine *)

TwiceBody == Pipe(Pipe(<<"x">>, CallOf("multiply", <<"2">>)), CallOf("multiply", <<"2">>))

\* templates with a chain, with two matches, with a failing stage, with a
\* missing path
InFlightTemplates ==
  { Braces(TwiceBody),
    Braces(Pipe(<<"x">>, CallOf("multiply", <<"2">>))) \o <<"-">>
      \o Braces(Pipe(<<"x">>, CallOf("multiply", <<"2">>))),
    <<"A">> \o Braces(Pipe(Pipe(<<"x">>, <<"error">>), CallOf("add", <<"1">>))) \o <<"B">>,
    Braces(Pipe(<<"x">>, CallOf("add", <<"1">>))) \o <<"-">> \o Braces(<<"m">>) }

InFlightLiterals ==
  { Literal(<<<<"A">>, <<"-">>, <<"B">>>>, <<FnKey("readX"), FnKey("giveZero")>>),
    Literal(<<<<"A">>, <<"-">>, <<"B">>>>, <<FnKey("throws"), FnKey("readX")>>),
    Literal(<<<<>>, <<>>>>, <<TextKey(Pipe(<<"x">>, CallOf("add", <<"1">>)))>>) }

InFlightData ==
  { Obj(Put(Put(M2("x", Num(3), "rate", Num(2)), "n", NULL), "a", Obj(M1("b", Num(1))))),
    Obj(M1("x", Num(5))) }

\* the engine is configured first; then two renders run, their steps
\* interleaved at the awaits
NextInterleaved ==
  \/ renders = <<>> /\ Len(tused) < MaxTemplateUse /\ \E config \in TemplateConfigs : TemplateUse(config)
  \/ Len(renders) < MaxRenders /\ \E template \in InFlightTemplates, data \in InFlightData : Render(template, data)
  \/ Len(renders) < MaxRenders /\ \E literal \in InFlightLiterals, data \in InFlightData : RenderTagged(literal, data)
  \/ \E id \in DOMAIN renders : Settle(id)
  \/ \E id \in DOMAIN renders : Substitute(id)

SpecInterleaved == InitTemplate /\ [][NextInterleaved]_vars

\* template.use is called at any moment, also while renders are suspended
NextShared ==
  \/ Len(tused) < MaxTemplateUse /\ \E config \in TemplateConfigs : TemplateUse(config)
  \/ Len(renders) < MaxRenders /\ \E template \in InFlightTemplates, data \in InFlightData : Render(template, data)
  \/ \E id \in DOMAIN renders : Settle(id)
  \/ \E id \in DOMAIN renders : Substitute(id)

SpecShared == InitTemplate /\ [][NextShared]_vars

-----------------------------------------------------------------------------
(* Vocabulary of the properties *)

Operations == {"getProp", "setProp", "hasProp", "removeProp"}

HasReserved(path) == \E i \in 1..Len(path.parts) : path.parts[i] \in ReservedIdentifiers

\* a non-empty string path with no reserved segment
ValidPath(path) ==
  /\ path.t = "string"
  /\ ~(Len(path.parts) = 1 /\ TrimIsEmpty(path.parts[1]))
  /\ ~HasReserved(path)

\* the latest call was op, on a non-null container with a valid path
OnCall(op) == last.op = op /\ ~IsNullish(last.pre) /\ ValidPath(last.path)

Front(q) == SubSeq(q, 1, Len(q) - 1)
Final(q) == q[Len(q)]

\* what the container c holds at the parent of the final segment (null or
\* undefined when the way to it is missing)
ParentIn(c, path) == GetWalk(c, Front(path.parts)).val

IsPrefix(q, r) == Len(q) <= Len(r) /\ SubSeq(r, 1, Len(q)) = q

\* every segment is a key of the mapping or an existing index of the sequence
\* reached so far
RECURSIVE StrictlyPresent(_, _)
StrictlyPresent(cur, parts) ==
  IF parts = <<>> THEN TRUE
  ELSE CASE cur.t = "object" ->
              /\ Head(parts) \in DOMAIN cur.m
              /\ StrictlyPresent(cur.m[Head(parts)], Tail(parts))
         [] cur.t = "array" ->
              /\ IsIndex(Head(parts))
              /\ IndexOf(Head(parts)) < Len(cur.e)
              /\ cur.e[IndexOf(Head(parts)) + 1] # HOLE
              /\ StrictlyPresent(cur.e[IndexOf(Head(parts)) + 1], Tail(parts))
         [] OTHER -> FALSE

\* the path does not resolve to a defined value in c
Missing(c, path) == GetWalk(c, path.parts).nullHit \/ GetWalk(c, path.parts).val = UNDEF

NoFallbackConfigured == \A i \in 1..Len(used) : ~used[i].hasFallback

-----------------------------------------------------------------------------
(* C1 *)

\* C1: round trip. After setProp(c, p, v) on a non-null container and a valid
\* path, whatever sits along the path, setProp has returned and getProp(c, p)
\* returns a value equal to v.
C1_RoundTrip ==
  OnCall("setProp") =>
    /\ last.out.kind = "return"
    /\ getProp(obj, last.path, UNDEF, globalConfig).kind = "return"
    /\ getProp(obj, last.path, UNDEF, globalConfig).val = last.arg

-----------------------------------------------------------------------------
(* C2 *)

-----------------------------------------------------------------------------
(* C3 *)

\* C3: security denial. On a non-null container, a path with a reserved
\* identifier as one of its segments (first, middle or last) makes each of
\* the four operations raise a security violation and leaves the container
\* unchanged.
C3_SecurityDenial ==
  (/\ last.op \in Operations
   /\ ~IsNullish(last.pre)
   /\ last.path.t = "string"
   /\ HasReserved(last.path)) =>
    /\ last.out.kind = "throw"
    /\ last.out.err = SECURITY_VIOLATION
    /\ obj = last.pre

\* setProp was refused for a reserved identifier in the middle of the path
C3_Witness ==
  /\ last.op = "setProp"
  /\ last.pre.t = "object"
  /\ last.path.t = "string"
  /\ Len(last.path.parts) = 3
  /\ last.path.parts[1] = "a"
  /\ last.path.parts[2] = "defineProperty"
  /\ last.path.parts[3] = "a"
  /\ last.out.err = SECURITY_VIOLATION

-----------------------------------------------------------------------------
(* C4 *)

\* C4 as stated: on a path that resolves to no defined value, getProp returns
\* the call-site fallback whenever one other than undefined is passed (null
\* included), and the configured global fallback when none is passed.
C4_FallbackPrecedence_Original ==
  (OnCall("getProp") /\ Missing(last.pre, last.path)) =>
    /\ last.out.kind = "return"
    /\ last.out.val = IF last.arg # UNDEF THEN last.arg ELSE last.cfg.fallback

\* C4 as amended: getProp returns the call-site fallback whenever one other
\* than undefined and null is passed, and the configured global fallback when
\* the call-site fallback is omitted, undefined or null.
C4_FallbackPrecedence ==
  (OnCall("getProp") /\ Missing(last.pre, last.path)) =>
    /\ last.out.kind = "return"
    /\ last.out.val = IF last.arg \notin {UNDEF, NULL} THEN last.arg ELSE last.cfg.fallback

\* a call-site fallback won over a configured global fallback
C4_Witness ==
  /\ OnCall("getProp")
  /\ Missing(last.pre, last.path)
  /\ last.cfg.fallback = Str("N/A")
  /\ last.arg = Str("X")
  /\ last.out.val = Str("X")

-----------------------------------------------------------------------------
(* C5 *)

\* C5 as stated: with no fallback ever configured and none passed, getProp on
\* a missing path returns the empty string.
C5_DefaultFallback_Original ==
  (/\ OnCall("getProp")
   /\ NoFallbackConfigured
   /\ last.arg = UNDEF
   /\ Missing(last.pre, last.path)) =>
    /\ last.out.kind = "return"
    /\ last.out.val = Str("")

\* C5 as amended: with no fallback ever configured and none passed, getProp on
\* a missing path returns undefined.
C5_DefaultFallback ==
  (/\ OnCall("getProp")
   /\ NoFallbackConfigured
   /\ last.arg = UNDEF
   /\ Missing(last.pre, last.path)) =>
    /\ last.out.kind = "return"
    /\ last.out.val = UNDEF

\* getProp met a null intermediate with nothing configured
C5_Witness ==
  /\ OnCall("getProp")
  /\ used = <<>>
  /\ last.arg = UNDEF
  /\ Len(last.path.parts) = 2
  /\ ParentIn(last.pre, last.path) = NULL
  /\ last.out.val = UNDEF

-----------------------------------------------------------------------------
(* C6 *)

\* C6: existence against value. After setProp(c, p, undefined), for every
\* non-null container and valid path, hasProp(c, p) is true and getProp(c, p)
\* returns the configured fallback.
C6_ExistenceVsValue ==
  (OnCall("setProp") /\ last.arg = UNDEF) =>
    /\ last.out.kind = "return"
    /\ hasProp(obj, last.path, globalConfig).kind = "return"
    /\ hasProp(obj, last.path, globalConfig).val = Bool(TRUE)
    /\ getProp(obj, last.path, UNDEF, globalConfig).val = globalConfig.fallback

-----------------------------------------------------------------------------
(* C7 *)

\* C7: missing data never raises. On a non-null container and a valid path,
\* getProp, hasProp and removeProp return whatever the shape of the container
\* along the path; getProp yields the value found or the fallback, hasProp a
\* boolean.
C7_MissingNeverRaises ==
  (\E op \in {"getProp", "hasProp", "removeProp"} : OnCall(op)) =>
    /\ last.out.kind = "return"
    /\ (last.op = "hasProp" => last.out.val.t = "boolean")
    /\ (last.op = "getProp" /\ Missing(last.pre, last.path)
          => last.out.val = FallbackValue(last.arg, last.cfg))

-----------------------------------------------------------------------------
(* C8 *)

\* C8: hasProp returns true exactly when every segment of the path is a key
\* of the mapping or an existing index of the sequence reached so far, and
\* false in every other case.
C8_HasExactly ==
  OnCall("hasProp") =>
    /\ last.out.kind = "return"
    /\ last.out.val = Bool(StrictlyPresent(last.pre, last.path.parts))

-----------------------------------------------------------------------------
(* C9 *)

\* the proper prefixes of the path that held no defined value before the call
MissingPrefixes(c, path) ==
  {n \in 1..(Len(path.parts) - 1) :
     Missing(c, PathStr(SubSeq(path.parts, 1, n)))}

\* what c holds at the path q (undefined when the way to it is missing)
Read(c, q) == IF GetWalk(c, q).nullHit THEN UNDEF ELSE GetWalk(c, q).val

\* every path that neither leads to the written path nor starts with it reads
\* the same before and after
OffPathUnchanged(before, after, path) ==
  \A q \in PlainPaths :
     (~IsPrefix(q.parts, path.parts) /\ ~IsPrefix(path.parts, q.parts))
       => Read(after, q.parts) = Read(before, q.parts)

\* C9: setProp creates an empty mapping (never a sequence) for every missing
\* intermediate segment, writes v at the final segment, returns the same
\* container, and leaves what is not on the path unchanged.
C9_SetCreatesAndWrites ==
  OnCall("setProp") =>
    /\ last.out.kind = "return"
    /\ last.out.val = obj
    /\ Read(obj, last.path.parts) = last.arg
    /\ \A n \in MissingPrefixes(last.pre, last.path) :
          Read(obj, SubSeq(last.path.parts, 1, n)).t = "object"
    /\ OffPathUnchanged(last.pre, obj, last.path)

-----------------------------------------------------------------------------
(* C10 *)

-----------------------------------------------------------------------------
(* C11 *)

\* some intermediate segment of the path is absent, undefined or null in c
MissingIntermediate(c, path) ==
  \E k \in 1..(Len(path.parts) - 1) : IsNullish(Read(c, SubSeq(path.parts, 1, k)))

\* C11: removeProp no-op cases. Called with a null or undefined container it
\* returns that value without raising, for every path (well-formed, blank,
\* non-string or with a reserved segment); called on a non-null container with a
\* valid path one of whose intermediate segments is absent, undefined or null,
\* it returns the same container with its whole content unchanged.
C11_RemoveNoOp ==
  /\ (last.op = "removeProp" /\ IsNullish(last.pre)) =>
        /\ last.out.kind = "return" /\ last.out.val = last.pre /\ obj = last.pre
        /\ \A p \in GuardPaths :
              /\ removeProp(last.pre, p, last.cfg).kind = "return"
              /\ removeProp(last.pre, p, last.cfg).val = last.pre
  /\ (OnCall("removeProp") /\ MissingIntermediate(last.pre, last.path)) =>
        /\ last.out.kind = "return" /\ last.out.val = last.pre /\ obj = last.pre

C11_Witness ==
  /\ last.op = "removeProp" /\ last.pre = NULL /\ last.path = PathStr(<<"a", "b">>)
  /\ last.out.kind = "return" /\ last.out.val = NULL

-----------------------------------------------------------------------------
(* Vocabulary of the template properties *)

\* the path text and the transform calls of a match
PathTextOf(match) == extractTransformers(extractTemplateContent(match)).path
ChainOf(match) == extractTransformers(extractTemplateContent(match)).transformers

\* the name of a transform call: the text before its first ":"
TransformName(call) ==
  IF IndexOfAtom(call, ":") = 0 THEN Join(call)
  ELSE Join(Trim(SubSeq(call, 1, IndexOfAtom(call, ":") - 1)))

\* the raw arguments of a transform call
RawArgs(call) ==
  LET argsStr == IF IndexOfAtom(call, ":") = 0 THEN <<>>
                 ELSE Trim(SubSeq(call, IndexOfAtom(call, ":") + 1, Len(call)))
  IN IF argsStr = <<>> THEN <<>>
     ELSE [i \in 1..Len(Split(argsStr, ",")) |-> Trim(Split(argsStr, ",")[i])]

Registered(name) == registry.hasTransformers /\ name \in DOMAIN registry.transformers

AllRegistered(chain) == \A i \in 1..Len(chain) : Registered(TransformName(chain[i]))

\* the transform calls render r made for its match k, in call order
CallsOf(r, k) == SelectSeq(r.calls, LAMBDA c : c.k = k)

\* what the path of match k of render r resolves to: the value getProp gives,
\* the engine's fallback value when that is undefined
ResolvedValue(r, k) ==
  LET looked == getProp(r.data, PathOf(PathTextOf(r.matches[k])), UNDEF, globalConfig).val
  IN IF looked = UNDEF THEN registry.defaultValue ELSE looked

BraceRenders == {id \in DOMAIN renders : renders[id].kind = "brace"}
TaggedRenders == {id \in DOMAIN renders : renders[id].kind = "tagged"}

-----------------------------------------------------------------------------
(* C12 *)

\* C12: transform chain order. For a brace expression path | t1 | ... | tn whose
\* transforms are all registered, the calls made for it are t1, t2, ... in that
\* order, each the registered function and at most once; t1 receives the
\* resolved path value and every later ti the settled output of t(i-1); a
\* transform is started only when every earlier call has settled; and once the
\* match is substituted every ti has been called exactly once and the text
\* substituted is the string form of tn's output.
C12_ChainOrder ==
  \A id \in BraceRenders :
    LET r == renders[id]
    IN /\ \A c \in 1..(Len(r.calls) - 1) : r.calls[c].settled
       /\ \A k \in 1..Len(r.matches) :
            LET chain == ChainOf(r.matches[k])
                calls == CallsOf(r, k)
            IN AllRegistered(chain) =>
                 /\ Len(calls) <= Len(chain)
                 /\ \A j \in 1..Len(calls) :
                       /\ calls[j].name = TransformName(chain[j])
                       /\ calls[j].fn = registry.transformers[TransformName(chain[j])]
                       /\ calls[j].value = IF j = 1 THEN ResolvedValue(r, k)
                                            ELSE calls[j - 1].out
                 /\ (k <= Len(r.subs) /\ chain # <<>>) =>
                       /\ Len(calls) = Len(chain)
                       /\ r.subs[k] = ToText(calls[Len(chain)].out)

\* '{{x | add:1 | multiply:2}}' between "A" and "B", with x = 3, rendered "A8B"
C12_Witness ==
  \E id \in BraceRenders :
    /\ renders[id].tpl = <<"A">> \o Braces(ChainBody) \o <<"B">>
    /\ renders[id].status = "complete"
    /\ Len(renders[id].calls) = 2
    /\ renders[id].calls[1].fn = "add" /\ renders[id].calls[1].value = Num(3)
    /\ renders[id].calls[2].fn = "multiply" /\ renders[id].calls[2].value = Num(4)
    /\ renders[id].returned = <<"A", "8", "B">>

-----------------------------------------------------------------------------
(* C13 *)

Range(q) == {q[i] : i \in 1..Len(q)}

\* C13: an unknown transform is non-fatal. For every transform call of a brace
\* expression whose name is not in the registry, the render does not reject
\* because of it: the configured default transform (the identity unless
\* template.use gave another) is the function called, a warning naming the
\* transform is logged, the call's output is the default transform's, and the
\* rest of the chain still runs.
C13_UnknownTransformNonFatal ==
  \A id \in BraceRenders :
    LET r == renders[id]
    IN /\ r.err # TYPE_ERROR
       /\ \A c \in 1..Len(r.calls) :
            ~Registered(r.calls[c].name) =>
              /\ r.calls[c].fn = registry.defaultTransformer
              /\ TEv("warn", "applyTransform", r.calls[c].name) \in Range(r.log)
              /\ r.calls[c].settled =>
                    r.calls[c].out =
                      CallFn(registry.defaultTransformer, r.calls[c].value, r.calls[c].args).val
       /\ \A k \in 1..Len(r.subs) : Len(CallsOf(r, k)) = Len(ChainOf(r.matches[k]))

-----------------------------------------------------------------------------
(* C14 *)

\* the argument resolution the rules prescribe for one raw argument: a quoted
\* text is the string between the quotes, a numeric text the number, one of
\* true, false, null and undefined that literal, a path at which the data holds
\* a defined value that value, and anything else the raw text
ResolvedArg(raw, data) ==
  LET quoted(q) == raw # <<>> /\ Head(raw) = q /\ raw[Len(raw)] = q
  IN IF quoted("\"") \/ quoted("'") THEN Txt(SubSeq(raw, 2, Len(raw) - 1))
     ELSE IF ~ToNumber(raw).nan THEN Num(ToNumber(raw).n)
     ELSE IF raw = <<"true">> THEN Bool(TRUE)
     ELSE IF raw = <<"false">> THEN Bool(FALSE)
     ELSE IF raw = <<"null">> THEN NULL
     ELSE IF raw = <<"undefined">> THEN UNDEF
     ELSE IF Read(data, PathOf(raw).parts) # UNDEF THEN Read(data, PathOf(raw).parts)
     ELSE Txt(raw)

\* C14: argument resolution order. Every transform of a brace expression is
\* called with its raw arguments resolved by the first rule that applies
\* (quotes, number, literal, defined value in the data context, raw text), under
\* any props configuration; an argument naming no defined value in the data
\* reaches the transform as its raw text.
C14_ArgumentResolution ==
  \A id \in BraceRenders :
    LET r == renders[id]
    IN \A k \in 1..Len(r.matches) :
         \A j \in 1..Len(CallsOf(r, k)) :
           LET raws == RawArgs(ChainOf(r.matches[k])[j])
           IN CallsOf(r, k)[j].args = [a \in 1..Len(raws) |-> ResolvedArg(raws[a], r.data)]

-----------------------------------------------------------------------------
(* C15 *)

\* match k of render r has a transform call whose name is a reserved identifier
HasReservedTransform(r, k) ==
  \E j \in 1..Len(ChainOf(r.matches[k])) :
     TransformName(ChainOf(r.matches[k])[j]) \in ReservedIdentifiers

\* C15: transform-name security. A brace expression with a transform call
\* whose name is a reserved identifier, with or without an argument list, makes
\* the render reject with a security violation when it is evaluated; no
\* transform is called for that expression and it is never substituted.
C15_TransformNameSecurity ==
  \A id \in BraceRenders :
    LET r == renders[id]
    IN \A k \in 1..Len(r.matches) :
         HasReservedTransform(r, k) =>
           /\ CallsOf(r, k) = <<>>
           /\ k > Len(r.subs)
           /\ r.k = k => (r.status = "failed" /\ r.err = SECURITY_VIOLATION)

-----------------------------------------------------------------------------
(* C16 *)

\* the path portion of a match: the text between "{{" and the first "|"
PathPortion(match) == Split(SubSeq(match, 3, Len(match) - 2), "|")[1]

\* no transform call of the match has a reserved identifier as its name or as
\* a dot-separated segment
NoReservedCall(match) ==
  /\ \A j \in 1..Len(ChainOf(match)) :
        ~(TransformName(ChainOf(match)[j]) \in ReservedIdentifiers)
  /\ \A j \in 1..Len(ChainOf(match)) : ~HasReserved(PathOf(ChainOf(match)[j]))

\* C16: empty path rejection. A brace expression whose path portion is empty or
\* blank after trimming, whatever transform calls without a reserved identifier
\* follow it, makes a render with an object data context reject with the
\* EmptyPath error when it is evaluated: no transform is called for it, it is
\* never substituted, and no string is returned.
C16_EmptyPathRejection ==
  \A id \in BraceRenders :
    LET r == renders[id]
    IN \A k \in 1..Len(r.matches) :
         (/\ IsObjectData(r.data)
          /\ Trim(PathPortion(r.matches[k])) = <<>>
          /\ NoReservedCall(r.matches[k])) =>
           /\ CallsOf(r, k) = <<>>
           /\ k > Len(r.subs)
           /\ r.k = k => /\ r.status = "failed" /\ r.err = EMPTY_PATH
                          /\ r.settled = "rejected" /\ r.returned = <<>>

\* '{{ | add:1}}' between "A" and "B" rendered with an object: rejected, EmptyPath
C16_Witness ==
  \E id \in BraceRenders :
    /\ renders[id].tpl = <<"A">> \o Braces(<<" ", "|", " ", "add", ":", "1">>) \o <<"B">>
    /\ IsObjectData(renders[id].data)
    /\ Registered("add")
    /\ renders[id].status = "failed"
    /\ renders[id].err = EMPTY_PATH

-----------------------------------------------------------------------------
(* C17 *)

Terminal(r) == r.status \in {"complete", "failed"}

CompleteEvent == TEv("log", "transform", "complete")

\* the call threw, or the promise it returned rejected
CallFailed(c) == c.settled /\ c.name # "function" /\ CallFn(c.fn, c.value, c.args).thrown

\* an error of path resolution, of a security check or of a transform stage has
\* been reported for the render
FailureSeen(r) ==
  \/ \E j \in 1..Len(r.log) : r.log[j].level = "error"
  \/ \E j \in 1..Len(r.calls) : CallFailed(r.calls[j])

\* the render has rejected with its failure and nothing has gone on after it
Aborted(r) ==
  /\ r.status = "failed" /\ r.settled = "rejected" /\ r.err # NoError
  /\ r.returned = <<>>
  /\ r.pending = NoPending
  /\ \A j \in 1..Len(r.log) : r.log[j] # CompleteEvent
  /\ \A j \in 1..Len(r.calls) :
        /\ r.calls[j].settled
        /\ r.calls[j].k <= r.k
        /\ CallFailed(r.calls[j]) =>
             /\ j = Len(r.calls)
             /\ r.calls[j].k = r.k
             /\ r.err = CallFn(r.calls[j].fn, r.calls[j].value, r.calls[j].args).err
  /\ r.kind = "brace" => r.k <= Len(r.matches) /\ Len(r.subs) = r.k - 1

Completed(r) ==
  /\ r.status = "complete" /\ r.settled = "resolved" /\ r.err = NoError
  /\ r.returned = r.result
  /\ Len(SelectSeq(r.log, LAMBDA e : e = CompleteEvent)) = 1
  /\ r.log[Len(r.log)] = CompleteEvent
  /\ r.kind = "brace" => Len(r.subs) = Len(r.matches)

Running(r) ==
  /\ r.status = "running" /\ r.settled = "pending" /\ r.err = NoError
  /\ r.returned = <<>>
  /\ \A j \in 1..Len(r.log) : r.log[j] # CompleteEvent

RenderStates ==
  \A id \in DOMAIN renders :
    LET r == renders[id]
    IN /\ Running(r) \/ Completed(r) \/ Aborted(r)
       /\ FailureSeen(r) => Aborted(r)

\* a render that has ended never changes again
TerminalIsFinal ==
  \A id \in DOMAIN renders : Terminal(renders[id]) => renders'[id] = renders[id]

\* C17: failure aborts the render. Once path resolution, a security check or a
\* transform stage has failed for a match, the render call is rejected with that
\* failure, the failing stage is the last call and the failing match the last
\* match evaluated, the 'complete' event is not in the log and no string is
\* returned; a render that has ended never changes again; and every render
\* call ends, completed or failed.
C17_FailureAborts ==
  /\ []RenderStates
  /\ [][TerminalIsFinal]_vars
  /\ \A id \in 1..MaxRenders :
        (id \in DOMAIN renders) ~> (id \in DOMAIN renders /\ Terminal(renders[id]))

\* '{{x}}-{{__proto__}}{{x | add:1 | multiply:2}}': failed at the second match
\* with the first substituted and the third never evaluated
C17_Witness ==
  \E id \in BraceRenders :
    /\ Len(renders[id].matches) = 3
    /\ renders[id].status = "failed"
    /\ renders[id].err = SECURITY_VIOLATION
    /\ Len(renders[id].subs) = 1
    /\ renders[id].calls = <<>>

\* '{{x | error | add:1}}' with the tests' transformers: failed at the first
\* stage, the second never called
C17_WitnessStage ==
  \E id \in BraceRenders :
    /\ Len(renders[id].calls) = 1
    /\ renders[id].calls[1].fn = "error"
    /\ Len(ChainOf(renders[id].matches[1])) = 2
    /\ renders[id].status = "failed"

-----------------------------------------------------------------------------
(* C18 *)

\* the value the data holds at the path of match k, undefined when absent
OwnValue(r, k) == getProp(r.data, PathOf(PathTextOf(r.matches[k])), UNDEF, InitialConfig).val

\* C18: fallback rendering in brace templates. An expression without
\* transforms whose path is absent from the data, or holds undefined or null,
\* is substituted by the fallback configured through template.use (the empty
\* string by default), under any props configuration.
C18_FallbackRendering ==
  \A id \in BraceRenders :
    LET r == renders[id]
    IN \A k \in 1..Len(r.subs) :
         (ChainOf(r.matches[k]) = <<>> /\ IsNullish(OwnValue(r, k))) =>
           r.subs[k] = ToText(registry.defaultValue)

-----------------------------------------------------------------------------
(* C19 *)

\* the render run to its end under one registry and one props configuration
RECURSIVE Finish(_, _, _)
Finish(r, reg, cfg) ==
  IF r.status # "running" THEN r
  ELSE IF r.kind = "tagged" THEN Finish(SettleTagged(r, reg, cfg), reg, cfg)
  ELSE IF r.phase = "hop" THEN Finish(SubstituteMatch(r, reg, cfg), reg, cfg)
  ELSE Finish(SettleTransform(r, reg, cfg), reg, cfg)

\* the transforms invoked, in order, each with its value and its arguments
Invocations(r) ==
  [j \in 1..Len(r.calls) |->
     [fn |-> r.calls[j].fn, value |-> r.calls[j].value, args |-> r.calls[j].args]]

\* tagged literals whose only slot is a string, without static text around it
OneStringSlot(r) ==
  /\ r.kind = "tagged"
  /\ r.tpl = <<<<>>, <<>>>>
  /\ Len(r.keys) = 1
  /\ r.keys[1].t = "text"

\* C19: tagged/brace equivalence. A finished render of the tagged literal whose
\* only slot is the string e has the same outcome (resolved or rejected, the
\* same string, the same error) and the same transform invocations, in the
\* same order with the same arguments, as the render of the brace template
\* '{{e}}' with the same data context.
C19_TaggedBraceEquivalence ==
  \A id \in DOMAIN renders :
    LET r == renders[id]
        b == Finish(processTemplate(Braces(r.keys[1].cs), r.data, registry, globalConfig),
                    registry, globalConfig)
    IN (OneStringSlot(r) /\ Terminal(r)) =>
         /\ r.status = b.status
         /\ r.returned = b.returned
         /\ r.err = b.err
         /\ Invocations(r) = Invocations(b)

-----------------------------------------------------------------------------
(* C20 *)

FunctionSlots(r) == {i \in 1..Len(r.keys) : r.keys[i].t = "function"}

\* the calls of the function slot i
SlotCalls(r, i) == SelectSeq(r.calls, LAMBDA c : c.k = i /\ c.name = "function")

\* what a slot value adds to the result: nothing for null and undefined
Contribution(v) == IF v \in {NULL, UNDEF} THEN <<>> ELSE ToText(v)

\* what slot i of a completed render adds to the result
SlotText(r, i) ==
  LET key == r.keys[i]
  IN IF key.t = "function" THEN Contribution(CallSlot(key, r.data).val)
     ELSE IF key.t # "text" THEN Contribution(key)
     ELSE IF IndexOfAtom(key.cs, "|") # 0 THEN Contribution(CallsOf(r, i)[1].out)
     ELSE Contribution(GetOrEmpty(r.data, PathOf(key.cs), globalConfig))

\* strings[1] slot[1] strings[2] slot[2] ... from fragment i on
RECURSIVE Interleaved(_, _)
Interleaved(r, i) ==
  IF i > Len(r.tpl) THEN <<>>
  ELSE r.tpl[i] \o (IF i <= Len(r.keys) THEN SlotText(r, i) ELSE <<>>) \o Interleaved(r, i + 1)

\* C20: tagged-literal rendering. Every function slot is called at most once,
\* in the order of the slots and with the data context; when the render has
\* completed each function slot has been called exactly once and the result is
\* the static fragments interleaved, in order, with what the slots gave, a
\* function's value as it is and nothing for null or undefined; a function
\* slot that fails makes the render reject with the function error and return
\* no string.
C20_TaggedRendering ==
  \A id \in TaggedRenders :
    LET r == renders[id]
    IN /\ \A j \in 1..Len(r.calls) :
            r.calls[j].name = "function" =>
              /\ r.calls[j].k \in FunctionSlots(r)
              /\ r.calls[j].fn = r.keys[r.calls[j].k].f
              /\ r.calls[j].value = r.data
              /\ r.calls[j].args = <<>>
              /\ \A h \in 1..(j - 1) : r.calls[h].k < r.calls[j].k
              /\ (r.calls[j].settled /\ CallSlot(r.keys[r.calls[j].k], r.data).thrown) =>
                   /\ r.status = "failed"
                   /\ r.err = FUNCTION_ERROR
                   /\ r.returned = <<>>
                   /\ j = Len(r.calls)
       /\ \A i \in FunctionSlots(r) :
            /\ Len(SlotCalls(r, i)) <= 1
            /\ CallsOf(r, i) = SlotCalls(r, i)
       /\ r.status = "complete" =>
            /\ \A i \in FunctionSlots(r) :
                  /\ Len(SlotCalls(r, i)) = 1
                  /\ SlotCalls(r, i)[1].settled
                  /\ SlotCalls(r, i)[1].out = CallSlot(r.keys[i], r.data).val
            /\ r.returned = Interleaved(r, 1)

\* `A${d => d.x}-${() => 0}B` with x = 3: completed with "A3-0B"
C20_Witness ==
  \E id \in TaggedRenders :
    /\ renders[id].status = "complete"
    /\ Len(renders[id].calls) = 2
    /\ \A j \in 1..2 : renders[id].calls[j].name = "function"
    /\ renders[id].returned = <<"A", "3", "-", "0", "B">>

\* `A${() => null}-${5}B`: the null adds nothing, completed with "A-5B"
C20_WitnessNull ==
  \E id \in TaggedRenders :
    /\ renders[id].status = "complete"
    /\ Len(renders[id].calls) = 1
    /\ renders[id].calls[1].fn = "giveNull"
    /\ renders[id].returned = <<"A", "-", "5", "B">>

\* `A${() => { throw ... }}-${d => d.x}B`: rejected, the second slot not called
C20_WitnessFailure ==
  \E id \in TaggedRenders :
    /\ renders[id].status = "failed"
    /\ renders[id].err = FUNCTION_ERROR
    /\ Len(renders[id].keys) = 2
    /\ Len(renders[id].calls) = 1

-----------------------------------------------------------------------------
(* C21 *)

\* C21: invalid template data. A render call, brace-style or tagged, with a
\* data context that is not an object never completes, and when it has ended
\* it has rejected with the error for invalid template data.
C21_InvalidTemplateData ==
  \A id \in DOMAIN renders :
    LET r == renders[id]
    IN ~IsObjectData(r.data) =>
         /\ r.status # "complete"
         /\ r.status = "failed" => r.err = INVALID_OBJECT

-----------------------------------------------------------------------------
(* C22 *)

\* the mapping of the most recent call of template.use, empty before any call
LatestTransformers ==
  IF tused = <<>> THEN EmptyMap ELSE tused[Len(tused)].transformers

\* the default transform of the most recent call that supplied one
RECURSIVE LatestDefault(_)
LatestDefault(h) ==
  IF h = <<>> THEN "identity"
  ELSE IF h[Len(h)].hasDefault THEN h[Len(h)].default
  ELSE LatestDefault(SubSeq(h, 1, Len(h) - 1))

\* the fallback value of the most recent call that supplied one
RECURSIVE LatestFallback(_)
LatestFallback(h) ==
  IF h = <<>> THEN Str("")
  ELSE IF h[Len(h)].hasFallback THEN h[Len(h)].fallback
  ELSE LatestFallback(SubSeq(h, 1, Len(h) - 1))

\* the transforms a lookup by name can find as registered
RegisteredTransforms ==
  IF registry.hasTransformers THEN registry.transformers ELSE EmptyMap

\* C22: registry configuration. After any sequence of template.use calls the
\* registered transforms are exactly the mapping of the most recent call (none
\* when that call gave no mapping), and the default transform and the fallback
\* value are those of the most recent call that supplied them, initially the
\* identity and the empty string.
C22_RegistryConfiguration ==
  /\ RegisteredTransforms = LatestTransformers
  /\ registry.defaultTransformer = LatestDefault(tused)
  /\ registry.defaultValue = LatestFallback(tused)

\* use({add, multiply, error}, fallback "N/A") then use({add}, default): only
\* add is registered, the fallback of the first call is kept
C22_Witness ==
  /\ Len(tused) = 2
  /\ tused[1].hasFallback /\ ~tused[2].hasFallback
  /\ tused[2].hasDefault
  /\ "multiply" \in DOMAIN tused[1].transformers
  /\ DOMAIN registry.transformers = {"add"}
  /\ registry.defaultValue = Str("N/A")
  /\ registry.defaultTransformer = "brand"

-----------------------------------------------------------------------------
(* C23 *)

\* the entries registered for the operation whose key is a suffix of the
\* path, in the order the mapping is iterated
SuffixEntries(type, path, cfg) ==
  SelectSeq(cfg.transformers[type],
            LAMBDA e : EndsWith(JoinChars(path.parts), JoinChars(e.name)))

\* fn_n(... fn_1(v))
RECURSIVE Composed(_, _)
Composed(entries, v) ==
  IF entries = <<>> THEN v ELSE Composed(Tail(entries), ApplyFn(Head(entries).fn, v))

\* C23: path-suffix transformers. A getProp that finds a value returns that
\* value passed through the getProp transformers whose key is a suffix of the
\* path, in the iteration order of the mapping, each given the previous
\* output, and through no other; a setProp that returns has stored at the path
\* the value passed in the same way through the setProp transformers.
C23_SuffixTransformers ==
  /\ (OnCall("getProp") /\ ~Missing(last.pre, last.path)) =>
        /\ last.out.kind = "return"
        /\ last.out.val = Composed(SuffixEntries("getProp", last.path, last.cfg),
                                    Read(last.pre, last.path.parts))
  /\ (OnCall("setProp") /\ last.out.kind = "return") =>
        Read(last.out.obj, last.path.parts)
          = Composed(SuffixEntries("setProp", last.path, last.cfg), last.arg)

\* getProp of "a.b", holding 1, with the transformers b -> inc and a.b -> dbl
\* registered in that order: (1 + 1) * 2 = 4
C23_Witness ==
  /\ OnCall("getProp")
  /\ last.path = PathStr(<<"a", "b">>)
  /\ Len(SuffixEntries("getProp", last.path, last.cfg)) = 2
  /\ Read(last.pre, last.path.parts) = Num(1)
  /\ last.out.val = Num(4)

\* setProp of 7 at "a.b" with the transformer b -> inc: 8 is stored
C23_WitnessSet ==
  /\ OnCall("setProp")
  /\ last.out.kind = "return"
  /\ Len(SuffixEntries("setProp", last.path, last.cfg)) = 1
  /\ last.arg = Num(7)
  /\ Read(last.out.obj, last.path.parts) = Num(8)

-----------------------------------------------------------------------------
(* C24 *)

\* the template from position i on, with the match that starts at each
\* position replaced there by the text in texts, the k-th match by texts[k]
RECURSIVE Positional(_, _, _, _)
Positional(cs, i, k, texts) ==
  IF i > Len(cs) THEN <<>>
  ELSE IF MatchEnd(cs, i) > 0
  THEN texts[k] \o Positional(cs, MatchEnd(cs, i) + 1, k + 1, texts)
  ELSE <<cs[i]>> \o Positional(cs, i + 1, k, texts)

\* C24: positional substitution. The string a completed brace render returns
\* is the template with every match replaced, at its own position, by the
\* string result of its own expression, and every other character unchanged.
C24_PositionalSubstitution ==
  \A id \in BraceRenders :
    LET r == renders[id]
    IN r.status = "complete" => r.returned = Positional(r.tpl, 1, 1, r.subs)

-----------------------------------------------------------------------------
(* C25 *)

\* the matches of render r whose text is that of match k
Occurrences(r, k) == {j \in 1..Len(r.matches) : r.matches[j] = r.matches[k]}

\* C25: identical match text. When the same '{{...}}' text occurs several
\* times in one template, its expression is evaluated once: the transforms of
\* its chain are called for its first occurrence only, never once per
\* occurrence, and every occurrence substituted so far has the same text.
C25_IdenticalMatchText ==
  \A id \in BraceRenders :
    LET r == renders[id]
    IN \A k \in 1..Len(r.matches) :
         \A j \in Occurrences(r, k) :
            j > k =>
              /\ CallsOf(r, j) = <<>>
              /\ j <= Len(r.subs) => r.subs[j] = r.subs[k]

-----------------------------------------------------------------------------
(* C26 *)

\* the path lookups render r has made
Lookups(r) == SelectSeq(r.log, LAMBDA e : e.level = "log" /\ e.operation = "get")

\* every lookup and every call so far belongs to a match that is substituted
\* or to the first match that is not; the calls are in the order of the
\* matches; the calls of the substituted matches have settled, and only the
\* latest call can be unsettled
InSourceOrder(r) ==
  /\ Len(r.subs) <= Len(r.matches)
  /\ Len(Lookups(r)) <= Len(r.subs) + 1
  /\ \A j \in 1..Len(r.calls) :
        /\ r.calls[j].k <= Len(r.subs) + 1
        /\ r.calls[j].k <= Len(r.subs) => r.calls[j].settled
        /\ j < Len(r.calls) => r.calls[j].settled /\ r.calls[j].k <= r.calls[j + 1].k

\* a step substitutes at most the next match, keeps what is substituted, and
\* starts a call only for the first match not substituted yet
StepInSourceOrder(r, q) ==
  /\ Len(q.subs) \in {Len(r.subs), Len(r.subs) + 1}
  /\ SubSeq(q.subs, 1, Len(r.subs)) = r.subs
  /\ Len(q.calls) >= Len(r.calls)
  /\ \A j \in (Len(r.calls) + 1)..Len(q.calls) : q.calls[j].k = Len(q.subs) + 1

\* C26: source-order evaluation. Within one brace render the matches are
\* looked up, transformed and substituted strictly in source order: no path
\* lookup and no transform call of a match happens before every call of the
\* match before it has settled and its result has been substituted.
C26_SourceOrder ==
  /\ [](\A id \in BraceRenders : InSourceOrder(renders[id]))
  /\ [][\A id \in BraceRenders : StepInSourceOrder(renders[id], renders'[id])]_vars

\* '{{x | add:1}}-{{x | add:1}}': the first match substituted, the call of the
\* second one suspended
C26_Witness ==
  \E id \in BraceRenders :
    /\ Len(renders[id].matches) = 2
    /\ Len(renders[id].subs) = 1
    /\ Len(renders[id].calls) = 2
    /\ renders[id].calls[1].settled /\ ~renders[id].calls[2].settled
    /\ renders[id].calls[2].k = 2
    /\ renders[id].status = "running"

-----------------------------------------------------------------------------
(* C27 *)

\* the calls render id had made before the step
CallsBefore(id) == IF id \in DOMAIN renders THEN renders[id].calls ELSE <<>>

\* every transform a render looks up in this step is the one the registry
\* holds at this step; the calls looked up before keep their function, and a
\* call that settles in this step gives what that function gives
LookupsUseRegistry ==
  \A id \in DOMAIN renders' :
    LET before == CallsBefore(id)
        after == renders'[id].calls
    IN /\ Len(after) >= Len(before)
       /\ \A j \in (Len(before) + 1)..Len(after) :
             after[j].name # "function" =>
               /\ registry.hasTransformers
               /\ after[j].fn = Lookup(registry, after[j].name)
       /\ \A j \in 1..Len(before) :
             /\ after[j].fn = before[j].fn
             /\ after[j].name = before[j].name
             /\ (after[j].settled /\ ~before[j].settled /\ before[j].name # "function") =>
                  after[j].out = CallFn(before[j].fn, before[j].value, before[j].args).val

\* C27: shared registry across in-flight renders. Whenever a render looks a
\* transform up, at its start or after resuming from a suspended transform, it
\* gets what the registry holds at that moment, so a template.use that ran in
\* between is seen by the later stages and the later matches; a stage that
\* was looked up before keeps the function it resolved.
C27_SharedRegistry == [][LookupsUseRegistry]_vars

\* '{{x | multiply:2 | multiply:2}}' started with multiply registered; use of a
\* mapping without multiply runs while the first stage is suspended: the first
\* stage is multiply, the second the new default transform
C27_Witness ==
  \E id \in BraceRenders :
    /\ Len(tused) = 2
    /\ Len(renders[id].calls) = 2
    /\ renders[id].calls[1].name = "multiply" /\ renders[id].calls[1].fn = "multiply"
    /\ renders[id].calls[2].name = "multiply" /\ renders[id].calls[2].fn = "brand"
    /\ renders[id].status = "complete"

-----------------------------------------------------------------------------
(* C30 *)

\* the render call of r made on its own: the same template and data context,
\* under the registry and the props configuration reg and cfg, run to its end
Solo(r, reg, cfg) ==
  Finish(IF r.kind = "brace" THEN processTemplate(r.tpl, r.data, reg, cfg)
         ELSE processTaggedTemplate(r.tpl, r.keys, r.data, reg, cfg),
         reg, cfg)

\* whatever the other renders have done, the render ends as it does alone
EndsAsSolo ==
  \A id \in DOMAIN renders :
    Finish(renders[id], registry, globalConfig) = Solo(renders[id], registry, globalConfig)

\* a step of one render leaves every other render as it was
OthersUntouched ==
  \A id \in DOMAIN renders :
    renders'[id] # renders[id] =>
      \A other \in DOMAIN renders : other # id => renders'[other] = renders[other]

\* C30: render isolation under interleaving. However the steps of two renders
\* in flight interleave at their suspension points, each render ends with the
\* outcome (resolved or rejected, text, error, substitutions, invocations and
\* log) of the same call made alone with its own template, its own data and
\* the registry; a step of one render changes nothing of the other, so the
\* failure of one does not reject the other.
C30_RenderIsolation == []EndsAsSolo /\ [][OthersUntouched]_vars

\* two renders in flight together over different data: the second has
\* failed while the first, with a match already substituted, is still
\* suspended and goes on to resolve
C30_Witness ==
  /\ Len(renders) = 2
  /\ renders[1].status = "running"
  /\ renders[1].subs # <<>>
  /\ renders[1].data # renders[2].data
  /\ renders[2].status = "failed"
  /\ Finish(renders[1], registry, globalConfig).status = "complete"

-----------------------------------------------------------------------------
(* C28 *)

\* the path is not a string, or is the empty string, or only white space
UnusablePath(path) ==
  \/ path.t # "string"
  \/ /\ Len(path.parts) = 1
     /\ path.parts[1] \in BlankSegments

\* the call raised err
Raised(err) == last.out.kind = "throw" /\ last.out.err = err

\* C28: validation order and logging. getProp, setProp and hasProp on a null
\* or undefined container raise the null-container failure whatever the path;
\* each of the four operations on a non-null container raises the
\* invalid-path failure for an empty, blank or non-string path; a security
\* violation is raised only for a non-null container and a usable path with
\* a reserved segment; and the last event logged by a call that raises is an
\* error event with the path of the call.
C28_ValidationOrder ==
  last.op \in Operations =>
    /\ (last.op # "removeProp" /\ IsNullish(last.pre)) => Raised(NULL_OR_UNDEFINED)
    /\ (~IsNullish(last.pre) /\ UnusablePath(last.path)) => Raised(INVALID_PATH)
    /\ Raised(SECURITY_VIOLATION) =>
         /\ ~IsNullish(last.pre)
         /\ ~UnusablePath(last.path)
         /\ HasReserved(last.path)
    /\ last.out.kind = "throw" =>
         /\ last.out.log # <<>>
         /\ last.out.log[Len(last.out.log)] = Ev("error", last.path)

\* hasProp on a null container with a reserved path raised the null-container
\* failure and logged it
C28_Witness ==
  /\ last.op = "hasProp"
  /\ last.pre = NULL
  /\ last.path = PathStr(<<"__proto__">>)
  /\ Raised(NULL_OR_UNDEFINED)
  /\ last.out.log = <<Ev("error", last.path)>>

\* removeProp on a container with a non-string path raised the invalid-path
\* failure
C28_WitnessRemove ==
  /\ last.op = "removeProp"
  /\ last.pre.t = "object"
  /\ last.path = Num(5)
  /\ Raised(INVALID_PATH)

-----------------------------------------------------------------------------
(* C29 *)

\* the final segment of the path of the call
FinalSegment == last.path.parts[Len(last.path.parts)]

\* the final segment is the decimal form of an index the sequence seq has
ExistingIndex(seq, part) == IsIndex(part) /\ ParseInt(part).n < Len(seq.e)

\* removeProp returned from a call whose parent is a sequence
RemovedUnderSequence ==
  /\ last.op = "removeProp"
  /\ last.out.kind = "return"
  /\ last.path.t = "string"
  /\ ParentIn(last.pre, last.path).t = "array"

\* C29: removeProp on a path whose parent is a sequence changes the sequence
\* only when the final segment is the decimal form of one of its indices; for
\* any other final segment (negative, out of range, non-numeric, mixed) the
\* sequence keeps its length and its elements.
C29_SequenceRemoval ==
  (RemovedUnderSequence /\ ~ExistingIndex(ParentIn(last.pre, last.path), FinalSegment)) =>
    ParentIn(obj, last.path) = ParentIn(last.pre, last.path)

\* the final segment '-1' or '1x' took an element out of the sequence
C29_ElementLost ==
  /\ RemovedUnderSequence
  /\ FinalSegment \in {"-1", "1x"}
  /\ Len(ParentIn(obj, last.path).e) = Len(ParentIn(last.pre, last.path).e) - 1

====
